---- MODULE Spec2Model ----
(***************************************************************************)
(* Model of the CPU advisory server of katalyst-core                       *)
(* (pkg/agent/sysadvisor/plugin/qosaware/server/cpu_server.go):            *)
(* the single-flight ListAndWatch loop, the tick (getAndPushAdvice) and    *)
(* the checkpoint reconciliation (syncCheckpoint) against the meta cache.  *)
(***************************************************************************)
EXTENDS Integers, Sequences, FiniteSets, TLC

(***************************************************************************)
(* Bounds of the model.                                                    *)
(***************************************************************************)
\* number of concurrent ListAndWatch callers
NumCalls == 2
\* last value of the clock; clock-advancing steps are guarded by it
MaxTime == 4

(***************************************************************************)
(* Program constants.                                                      *)
(***************************************************************************)
\* cs.period, in clock units
Period == 1
\* types.StartUpPeriod, in clock units
StartUpPeriod == 3
\* cs.startTime, the clock value at construction
startTime == 0

PoolNameReserve == "reserve"
PoolNameShare == "share"
PoolNameReclaim == "reclaim"
FakedContainerName == ""

QoSLevelSharedCores == "shared_cores"
QoSLevelDedicatedCores == "dedicated_cores"
QoSLevelReclaimedCores == "reclaimed_cores"
\* the error result of qosConf.GetQoSLevelForPod
QoSErr == "qos_error"

Calls == 1..NumCalls

VARIABLES
    hasListAndWatchLoop, \* cs.hasListAndWatchLoop (atomic.Value holding a bool)
    pc,                  \* position of every ListAndWatch call
    ret,                 \* return value of every call
    ctxDone,             \* server.Context().Done() of every call's stream
    stopped,             \* cs.stopCh is closed
    timer,               \* the time.Timer local to every call
    health,              \* the cpu-server-lw heartbeat check
    now,                 \* the clock (time.Now)
    metaCache,           \* cs.metaCache: pools, containers, creation times
    safeTime,            \* safeTime local of getAndSyncCheckpoint, per call
    resp,                \* getCheckpointResp local, per call
    tickErr,             \* the error getAndPushAdvice returns, per call
    tickLog,             \* steps the current tick has performed, per call
    preTick,             \* containers cached when safeTime was sampled, per call
    preSync,             \* containers cached when syncCheckpoint began, per call
    syncHist,            \* the latest reconciliation of the reconciliation-only
                         \* specification: its inputs, the cache before and after
    asmHist              \* the latest call of assembleResponse of the assembly-only
                         \* specification: its inputs and the response it built

vars == <<hasListAndWatchLoop, pc, ret, ctxDone, stopped, timer, health, now,
          metaCache, safeTime, resp, tickErr, tickLog, preTick, preSync, syncHist,
          asmHist>>

loopVars == <<hasListAndWatchLoop, pc, ret, ctxDone, stopped, timer, health,
              safeTime, resp, tickErr, tickLog, preTick, preSync>>

(***************************************************************************)
(* Finite maps.                                                            *)
(***************************************************************************)
EmptyMap == [x \in {} |-> 0]

Range(s) == {s[i] : i \in DOMAIN s}

MapPut(m, k, v) == [x \in DOMAIN m \cup {k} |-> IF x = k THEN v ELSE m[x]]

MapRestrict(m, keep) == [x \in DOMAIN m \cap keep |-> m[x]]

Orders(S) == {o \in [1..Cardinality(S) -> S] : Range(o) = S}

(***************************************************************************)
(* Wire and cache data.                                                    *)
(*   checkpoint     : [Entries : entryName -> (subKey -> AllocationInfo)]  *)
(*   AllocationInfo : owner pool, ramp-up flag and the topology-aware      *)
(*                    assignments in wire format, NUMA id -> list of CPUs  *)
(*   metaCache      : [pools, containers, createTime]; containers and      *)
(*                    createTime are keyed by <<podUID, containerName>>    *)
(***************************************************************************)
AllocationInfo(owner, rampUp, assign, original) ==
    [OwnerPoolName |-> owner, RampUp |-> rampUp,
     TopologyAwareAssignments |-> assign,
     OriginalTopologyAwareAssignments |-> original]

\* machine.TransformCPUAssignmentFormat: every NUMA id keeps its key and the
\* textual CPU list is parsed into a CPU set (order and repetition are lost)
TransformCPUAssignmentFormat(assignment) ==
    [n \in DOMAIN assignment |-> Range(assignment[n])]

EmptyCache == [pools |-> EmptyMap, containers |-> EmptyMap, createTime |-> EmptyMap]

\* metaCache.GetPoolInfo: the second result (ok)
HasPoolInfo(mc, poolName) == poolName \in DOMAIN mc.pools

\* metaCache.GetPoolInfo: the first result
GetPoolInfo(mc, poolName) == mc.pools[poolName]

\* metaCache.SetPoolInfo
SetPoolInfo(mc, poolName, pi) ==
    [mc EXCEPT !.pools = MapPut(mc.pools, poolName, pi)]

\* metaCache.GetContainerInfo: the second result (ok)
HasContainerInfo(mc, podUID, containerName) ==
    <<podUID, containerName>> \in DOMAIN mc.containers

\* metaCache.GetContainerInfo: the first result, a copy of the cached record
GetContainerInfo(mc, podUID, containerName) ==
    mc.containers[<<podUID, containerName>>]

\* metaCache.SetContainerInfo on a container the cache holds: replaces the
\* record and keeps the creation time
SetContainerInfo(mc, podUID, containerName, ci) ==
    [mc EXCEPT !.containers = MapPut(mc.containers, <<podUID, containerName>>, ci)]

\* metaCache.AddContainer by another actor: stores a container the cache does
\* not hold and stamps its creation time
AddContainerInfo(mc, podUID, containerName, ci, t) ==
    LET key == <<podUID, containerName>> IN
    [mc EXCEPT !.containers = MapPut(mc.containers, key, ci),
               !.createTime = MapPut(mc.createTime, key, t)]

\* the container records of the cache
CachedContainers(mc) == {mc.containers[k] : k \in DOMAIN mc.containers}

\* metaCache.RangeAndDeleteContainer: deletes every container the predicate f
\* (a function on the cached records) selects, except those created after
\* the fence safeTime
RangeAndDeleteContainer(mc, f, fence) ==
    LET keep == {k \in DOMAIN mc.containers :
                    ~ (f[mc.containers[k]] /\ mc.createTime[k] < fence)} IN
    [mc EXCEPT !.containers = MapRestrict(mc.containers, keep),
               !.createTime = MapRestrict(mc.createTime, keep)]

\* metaCache.GCPoolEntries: deletes every pool outside the living set
GCPoolEntries(mc, livingPoolNameSet) ==
    [mc EXCEPT !.pools = MapRestrict(mc.pools, livingPoolNameSet)]

\* types.PoolInfo as updatePoolInfo first creates it
NewPoolInfo(name) ==
    [PoolName |-> name,
     TopologyAwareAssignments |-> EmptyMap,
     OriginalTopologyAwareAssignments |-> EmptyMap]

\* types.ContainerInfo as another actor (AddContainer) first stores it
NewContainerInfo(podUID, containerName, qosLevel) ==
    [PodUID |-> podUID, ContainerName |-> containerName, QoSLevel |-> qosLevel,
     RampUp |-> FALSE, OwnerPoolName |-> "", OriginOwnerPoolName |-> "",
     TopologyAwareAssignments |-> EmptyMap,
     OriginalTopologyAwareAssignments |-> EmptyMap]

(***************************************************************************)
(* Checkpoint reconciliation.                                              *)
(***************************************************************************)
\* a pool first created is named after the key it is stored under
updatePoolInfo_namedByKey(mc, poolName, info) ==
    LET pi == IF HasPoolInfo(mc, poolName)
              THEN GetPoolInfo(mc, poolName)
              ELSE NewPoolInfo(poolName)
        pi2 == [pi EXCEPT
                  !.TopologyAwareAssignments =
                      TransformCPUAssignmentFormat(info.TopologyAwareAssignments),
                  !.OriginalTopologyAwareAssignments =
                      TransformCPUAssignmentFormat(info.OriginalTopologyAwareAssignments)]
    IN SetPoolInfo(mc, poolName, pi2)

\* cpuServer.updatePoolInfo
updatePoolInfo(mc, poolName, info) ==
    LET pi == IF HasPoolInfo(mc, poolName)
              THEN GetPoolInfo(mc, poolName)
              ELSE NewPoolInfo(info.OwnerPoolName)
        pi2 == [pi EXCEPT
                  !.TopologyAwareAssignments =
                      TransformCPUAssignmentFormat(info.TopologyAwareAssignments),
                  !.OriginalTopologyAwareAssignments =
                      TransformCPUAssignmentFormat(info.OriginalTopologyAwareAssignments)]
    IN SetPoolInfo(mc, poolName, pi2)

\* the origin owner pool follows the owner pool on every update
OriginAfterUpdate_overwrite(ci) == ci.OwnerPoolName

\* the OriginOwnerPoolName assignment of updateContainerInfo
OriginAfterUpdate(ci) ==
    IF ci.OriginOwnerPoolName = "" THEN ci.OwnerPoolName ELSE ci.OriginOwnerPoolName

\* updateContainerInfo that creates the record of a container the cache does
\* not hold
updateContainerInfo_upsert(mc, podUID, containerName, qosLevel, info) ==
    IF qosLevel = QoSErr THEN mc
    ELSE
      LET ci0 == IF HasContainerInfo(mc, podUID, containerName)
                 THEN GetContainerInfo(mc, podUID, containerName)
                 ELSE NewContainerInfo(podUID, containerName, qosLevel)
          ci1 == [ci0 EXCEPT
                    !.RampUp = info.RampUp,
                    !.TopologyAwareAssignments =
                        TransformCPUAssignmentFormat(info.TopologyAwareAssignments),
                    !.OriginalTopologyAwareAssignments =
                        TransformCPUAssignmentFormat(info.OriginalTopologyAwareAssignments),
                    !.OwnerPoolName = info.OwnerPoolName,
                    !.QoSLevel = qosLevel]
          ci2 == [ci1 EXCEPT !.OriginOwnerPoolName = OriginAfterUpdate(ci1)]
      IN AddContainerInfo(mc, podUID, containerName, ci2, 0)

\* cpuServer.updateContainerInfo; qosLevel is the result of
\* qosConf.GetQoSLevelForPod(pod)
updateContainerInfo(mc, podUID, containerName, qosLevel, info) ==
    IF ~ HasContainerInfo(mc, podUID, containerName) THEN mc
    ELSE IF qosLevel = QoSErr THEN mc
    ELSE
      LET ci0 == GetContainerInfo(mc, podUID, containerName)
          ci1 == [ci0 EXCEPT
                    !.RampUp = info.RampUp,
                    !.TopologyAwareAssignments =
                        TransformCPUAssignmentFormat(info.TopologyAwareAssignments),
                    !.OriginalTopologyAwareAssignments =
                        TransformCPUAssignmentFormat(info.OriginalTopologyAwareAssignments),
                    !.OwnerPoolName = info.OwnerPoolName,
                    !.QoSLevel = qosLevel]
          ci2 == [ci1 EXCEPT !.OriginOwnerPoolName = OriginAfterUpdate(ci1)]
          ci3 == IF /\ ci2.QoSLevel # QoSLevelDedicatedCores
                    /\ ci2.OwnerPoolName # ""
                    /\ HasPoolInfo(mc, ci2.OwnerPoolName)
                 THEN [ci2 EXCEPT !.TopologyAwareAssignments =
                          GetPoolInfo(mc, ci2.OwnerPoolName).TopologyAwareAssignments]
                 ELSE ci2
      IN SetContainerInfo(mc, podUID, containerName, ci3)

\* whether a checkpoint entry is a pool-level entry
IsPoolEntry(entry) == FakedContainerName \in DOMAIN entry

\* the first loop of syncCheckpoint over resp.Entries, visited in `order`;
\* acc is [mc, living]
RECURSIVE parsePoolEntries(_, _, _, _)
parsePoolEntries(acc, r, order, i) ==
    IF i > Len(order) THEN acc
    ELSE
      LET entryName == order[i]
          entry == r.Entries[entryName]
          acc2 == IF IsPoolEntry(entry)
                  THEN [mc |-> updatePoolInfo(acc.mc, entryName, entry[FakedContainerName]),
                        living |-> acc.living \cup {entryName}]
                  ELSE acc
      IN parsePoolEntries(acc2, r, order, i + 1)

\* the inner loop of the second loop: every container sub-entry of one pod
RECURSIVE updatePodContainers(_, _, _, _, _)
updatePodContainers(mc, podUID, entry, todo, qosLevel) ==
    IF todo = {} THEN mc
    ELSE
      LET containerName == CHOOSE n \in todo : TRUE
          mc2 == updateContainerInfo(mc, podUID, containerName, qosLevel,
                                     entry[containerName])
      IN updatePodContainers(mc2, podUID, entry, todo \ {containerName}, qosLevel)

\* the second loop, given up at the first pod whose lookup fails
parseContainerEntries_abortOnError(mc, r, order, i, env) ==
    LET failed == {j \in 1..Len(order) :
                      /\ ~ IsPoolEntry(r.Entries[order[j]])
                      /\ order[j] \in env.podErr}
        stop == IF failed = {} THEN Len(order) + 1
                ELSE CHOOSE j \in failed : \A j2 \in failed : j <= j2
        done == {order[j] : j \in 1..(stop - 1)}
    IN [mc EXCEPT !.containers =
          [k \in DOMAIN mc.containers |->
              IF /\ k[1] \in done
                 /\ ~ IsPoolEntry(r.Entries[k[1]])
                 /\ k[2] \in DOMAIN r.Entries[k[1]]
              THEN GetContainerInfo(
                       updateContainerInfo(mc, k[1], k[2], env.qos[k[1]],
                                           r.Entries[k[1]][k[2]]), k[1], k[2])
              ELSE mc.containers[k]]]

\* the second loop of syncCheckpoint over resp.Entries, visited in `order`;
\* env.podErr are the pods metaServer.GetPod fails for, env.qos the QoS level
\* (or QoSErr) qosConf.GetQoSLevelForPod gives for each pod
RECURSIVE parseContainerEntries(_, _, _, _, _)
parseContainerEntries(mc, r, order, i, env) ==
    IF i > Len(order) THEN mc
    ELSE
      LET entryName == order[i]
          entry == r.Entries[entryName]
          mc2 == IF IsPoolEntry(entry) \/ entryName \in env.podErr
                 THEN mc
                 ELSE updatePodContainers(mc, entryName, entry, DOMAIN entry,
                                          env.qos[entryName])
      IN parseContainerEntries(mc2, r, order, i + 1, env)

\* the predicate looks at the pod UID alone
containerNotInCheckpoint_podOnly(r, containerInfo) ==
    containerInfo.PodUID \notin DOMAIN r.Entries

\* the predicate syncCheckpoint hands to RangeAndDeleteContainer
containerNotInCheckpoint(r, containerInfo) ==
    IF containerInfo.PodUID \notin DOMAIN r.Entries THEN TRUE
    ELSE containerInfo.ContainerName \notin DOMAIN r.Entries[containerInfo.PodUID]

\* the living set complemented with the current owner pools instead
livingOriginPools_owner(mc) ==
    {mc.containers[k].OwnerPoolName : k \in DOMAIN mc.containers}

\* the living set is not complemented after container gc
livingOriginPools_none(mc) == {}

\* the pool names syncCheckpoint adds to the living set after container gc
livingOriginPools(mc) ==
    {mc.containers[k].OriginOwnerPoolName : k \in DOMAIN mc.containers}

\* one loop over resp.Entries that handles pool and pod entries as they come
RECURSIVE parseEntriesSinglePass(_, _, _, _, _)
parseEntriesSinglePass(acc, r, order, i, env) ==
    IF i > Len(order) THEN acc
    ELSE
      LET entryName == order[i]
          entry == r.Entries[entryName]
          acc2 == IF IsPoolEntry(entry)
                  THEN [mc |-> updatePoolInfo(acc.mc, entryName, entry[FakedContainerName]),
                        living |-> acc.living \cup {entryName}]
                  ELSE IF entryName \in env.podErr THEN acc
                  ELSE [mc |-> updatePodContainers(acc.mc, entryName, entry, DOMAIN entry,
                                                   env.qos[entryName]),
                        living |-> acc.living]
      IN parseEntriesSinglePass(acc2, r, order, i + 1, env)

\* syncCheckpoint with pool and container entries parsed in one pass
syncCheckpoint_singlePass(mc, r, fence, env, order1, order2) ==
    LET p1 == parseEntriesSinglePass([mc |-> mc, living |-> {}], r, order1, 1, env)
        notIn == [ci \in CachedContainers(p1.mc) |-> containerNotInCheckpoint(r, ci)]
        mc3 == RangeAndDeleteContainer(p1.mc, notIn, fence)
        living == p1.living \cup livingOriginPools(mc3)
    IN GCPoolEntries(mc3, living)

\* cpuServer.syncCheckpoint; order1 and order2 are the iteration orders of the
\* two loops over the map resp.Entries
syncCheckpoint(mc, r, fence, env, order1, order2) ==
    LET p1 == parsePoolEntries([mc |-> mc, living |-> {}], r, order1, 1)
        mc2 == parseContainerEntries(p1.mc, r, order2, 1, env)
        notIn == [ci \in CachedContainers(mc2) |-> containerNotInCheckpoint(r, ci)]
        mc3 == RangeAndDeleteContainer(mc2, notIn, fence)
        living == p1.living \cup livingOriginPools(mc3)
    IN GCPoolEntries(mc3, living)

(***************************************************************************)
(* Blocks, the block set and the calculation entries of one assembly.  The *)
(* blocks of an assembly live in a heap (a sequence of block records); the *)
(* calculation entries and the block set refer to them by their position,  *)
(* as the Go values do by pointer.  An assembly state is                   *)
(*   [entries |-> calculationEntriesMap, heap |-> blocks, bs |-> blockSet] *)
(***************************************************************************)
\* the empty block identifier: NewBlock generates a fresh one for it
NoBlockId == 0

EmptyAssembly == [entries |-> EmptyMap, heap |-> <<>>, bs |-> EmptyMap]

\* NewBlock(size, blockID): the block becomes the last one of the heap; a
\* generated identifier is new to the assembly
NewBlock(st, size, blockID) ==
    [st EXCEPT !.heap = Append(@,
        [BlockId |-> IF blockID = NoBlockId THEN Len(st.heap) + 1 ELSE blockID,
         Result |-> size,
         OverlapTargets |-> {}])]

\* the block NewBlock has just made
LastBlock(st) == Len(st.heap)

\* the block set after the block at h is registered under its identifier
registered(st, h) == MapPut(st.bs, st.heap[h].BlockId, h)

\* a join that records the overlap on the joining block alone
join_oneWay(st, h, blockID) ==
    LET bs1 == registered(st, h)
        heap1 == IF blockID \in DOMAIN bs1 /\ bs1[blockID] # h
                 THEN [st.heap EXCEPT ![h].OverlapTargets = @ \cup {blockID}]
                 ELSE st.heap
    IN [st EXCEPT !.heap = heap1, !.bs = bs1]

\* innerBlock.join(blockID, bs) for the block at h: the block is registered
\* under its own identifier; then, when blockID names another block of the
\* block set, each of the two gets the other's identifier as overlap target.
\* A block joined on its own identifier stands alone.
join(st, h, blockID) ==
    LET bs1 == registered(st, h)
        heap1 ==
          IF blockID \in DOMAIN bs1 /\ bs1[blockID] # h
          THEN LET t == bs1[blockID] IN
               [i \in DOMAIN st.heap |->
                   IF i = h
                   THEN [st.heap[i] EXCEPT
                           !.OverlapTargets = @ \cup {st.heap[t].BlockId}]
                   ELSE IF i = t
                   THEN [st.heap[i] EXCEPT
                           !.OverlapTargets = @ \cup {st.heap[h].BlockId}]
                   ELSE st.heap[i]]
          ELSE st.heap
    IN [st EXCEPT !.heap = heap1, !.bs = bs1]

\* NewPoolCalculationEntries(poolName)
NewPoolCalculationEntries(poolName) ==
    (FakedContainerName :> [OwnerPoolName |-> poolName, Numas |-> EmptyMap])

\* getNumaCalculationResult(calculationEntriesMap, name, container, numa): ok
HasNumaCalculationResult(entries, name, container, numa) ==
    /\ name \in DOMAIN entries
    /\ container \in DOMAIN entries[name]
    /\ numa \in DOMAIN entries[name][container].Numas

\* getNumaCalculationResult: the blocks of the result
getNumaCalculationResult(entries, name, container, numa) ==
    entries[name][container].Numas[numa]

\* advisorResp.GetPoolOverlapInfo(poolName, numaID)
GetPoolOverlapInfo(advisorResp, poolName, numaID) ==
    IF /\ poolName \in DOMAIN advisorResp.PoolOverlapInfo
       /\ numaID \in DOMAIN advisorResp.PoolOverlapInfo[poolName]
    THEN advisorResp.PoolOverlapInfo[poolName][numaID]
    ELSE EmptyMap

\* ci.IsDedicatedNumaBinding()
IsDedicatedNumaBinding(ci) ==
    ci.QoSLevel = QoSLevelDedicatedCores /\ ci.NumaBinding

\* a range over a set of NUMA ids or names, in one fixed order
RangeOrder(S) == CHOOSE o \in Orders(S) : TRUE

(***************************************************************************)
(* assemblePoolEntries, assemblePodEntries, assembleResponse.              *)
(***************************************************************************)
\* a new block of the given size joined on its own identifier
standaloneBlock(st, size) ==
    LET s1 == NewBlock(st, size, NoBlockId)
    IN join(s1, LastBlock(s1), s1.heap[LastBlock(s1)].BlockId)

\* the inner loop of the first loop of assemblePoolEntries: one block for
\* every NUMA id of the pool; the result is [st, res]
RECURSIVE assemblePoolNumas(_, _, _, _)
assemblePoolNumas(acc, sizes, order, i) ==
    IF i > Len(order) THEN acc
    ELSE
      LET s1 == standaloneBlock(acc.st, sizes[order[i]])
      IN assemblePoolNumas([st |-> s1,
                            res |-> MapPut(acc.res, order[i], <<LastBlock(s1)>>)],
                           sizes, order, i + 1)

\* the entry of one pool put into calculationEntriesMap
putPoolEntry(st, poolName, res) ==
    [st EXCEPT !.entries = MapPut(@, poolName,
        [NewPoolCalculationEntries(poolName) EXCEPT ![FakedContainerName].Numas = res])]

\* whether the first loop leaves the pool to the second part
joinedLastly(advisorResp, poolName) ==
    poolName = PoolNameReclaim /\ advisorResp.AllowSharedCoresOverlapReclaimedCores

\* the first loop of assemblePoolEntries over advisorResp.PoolEntries
RECURSIVE assemblePlainPools(_, _, _, _)
assemblePlainPools(st, advisorResp, order, i) ==
    IF i > Len(order) THEN st
    ELSE
      LET poolName == order[i]
          sizes == advisorResp.PoolEntries[poolName]
          r == assemblePoolNumas([st |-> st, res |-> EmptyMap], sizes,
                                 RangeOrder(DOMAIN sizes), 1)
          s1 == IF joinedLastly(advisorResp, poolName) THEN st
                ELSE putPoolEntry(r.st, poolName, r.res)
      IN assemblePlainPools(s1, advisorResp, order, i + 1)

\* the loop over overlapSize for one NUMA id of the reclaim pool: a block per
\* shared pool that has exactly one block there; acc is [st, blocks]
RECURSIVE overlapBlocks(_, _, _, _, _)
overlapBlocks(acc, overlapSize, numaID, order, i) ==
    IF i > Len(order) THEN acc
    ELSE
      LET sharedPoolName == order[i]
          s1 == NewBlock(acc.st, overlapSize[sharedPoolName], NoBlockId)
          ok == HasNumaCalculationResult(s1.entries, sharedPoolName,
                                         FakedContainerName, numaID)
          shared == getNumaCalculationResult(s1.entries, sharedPoolName,
                                             FakedContainerName, numaID)
          acc2 == IF ok /\ Len(shared) = 1
                  THEN [st |-> join(s1, LastBlock(s1), s1.heap[shared[1]].BlockId),
                        blocks |-> Append(acc.blocks, LastBlock(s1))]
                  ELSE [st |-> s1, blocks |-> acc.blocks]
      IN overlapBlocks(acc2, overlapSize, numaID, order, i + 1)

\* the loop over the NUMA ids of the reclaim pool in the second part
RECURSIVE assembleReclaimNumas(_, _, _, _)
assembleReclaimNumas(acc, advisorResp, order, i) ==
    IF i > Len(order) THEN acc
    ELSE
      LET numaID == order[i]
          overlapSize == GetPoolOverlapInfo(advisorResp, PoolNameReclaim, numaID)
          acc2 == IF DOMAIN overlapSize = {}
                  THEN LET s1 == standaloneBlock(acc.st,
                                     advisorResp.PoolEntries[PoolNameReclaim][numaID])
                       IN [st |-> s1,
                           res |-> MapPut(acc.res, numaID, <<LastBlock(s1)>>)]
                  ELSE LET r == overlapBlocks([st |-> acc.st, blocks |-> <<>>],
                                    overlapSize, numaID,
                                    RangeOrder(DOMAIN overlapSize), 1)
                       IN [st |-> r.st, res |-> MapPut(acc.res, numaID, r.blocks)]
      IN assembleReclaimNumas(acc2, advisorResp, order, i + 1)

\* the second part of assemblePoolEntries: the reclaim pool joined lastly
assembleReclaimPool(st, advisorResp) ==
    IF /\ PoolNameReclaim \in DOMAIN advisorResp.PoolEntries
       /\ advisorResp.AllowSharedCoresOverlapReclaimedCores
    THEN LET r == assembleReclaimNumas([st |-> st, res |-> EmptyMap], advisorResp,
                      RangeOrder(DOMAIN advisorResp.PoolEntries[PoolNameReclaim]), 1)
         IN putPoolEntry(r.st, PoolNameReclaim, r.res)
    ELSE st

\* the reclaim pool assembled where the range over the pool map meets it
assemblePoolEntries_reclaimInOrder(st, advisorResp, order) ==
    LET at == {i \in 1..Len(order) : order[i] = PoolNameReclaim}
        k == IF at = {} THEN Len(order) + 1 ELSE CHOOSE i \in at : TRUE
        s1 == assemblePlainPools(st, advisorResp, SubSeq(order, 1, k - 1), 1)
        s2 == assembleReclaimPool(s1, advisorResp)
    IN assemblePlainPools(s2, advisorResp, SubSeq(order, k, Len(order)), 1)

\* cpuServer.assemblePoolEntries; order is the iteration order of the range
\* over advisorResp.PoolEntries
assemblePoolEntries(st, advisorResp, order) ==
    assembleReclaimPool(assemblePlainPools(st, advisorResp, order, 1), advisorResp)

\* the owner pool name published without looking at the isolation
PublishedOwnerPool_ignoreIsolation(ci) ==
    IF ci.OwnerPoolName # ci.OriginOwnerPoolName
    THEN ci.OriginOwnerPoolName
    ELSE ci.OwnerPoolName

\* calculationInfo.OwnerPoolName as assemblePodEntries sets it
PublishedOwnerPool(ci) ==
    LET locked == IF /\ ci.Isolated
                     /\ Cardinality(ci.RegionNames) = 1
                     /\ ci.OwnerPoolName # (CHOOSE n \in ci.RegionNames : TRUE)
                  THEN CHOOSE n \in ci.RegionNames : TRUE
                  ELSE ci.OwnerPoolName
    IN IF ~ ci.Isolated /\ ci.OwnerPoolName # ci.OriginOwnerPoolName
       THEN ci.OriginOwnerPoolName
       ELSE locked

\* only the empty pool name makes a container be left out
omitContainer_emptyOnly(entries, ci, ownerPoolName) ==
    /\ ci.QoSLevel \in {QoSLevelSharedCores, QoSLevelReclaimedCores}
    /\ ownerPoolName = ""

\* the two early returns of assemblePodEntries for shared_cores and
\* reclaimed_cores containers
omitContainer(entries, ci, ownerPoolName) ==
    /\ ci.QoSLevel \in {QoSLevelSharedCores, QoSLevelReclaimedCores}
    /\ \/ ownerPoolName = ""
       \/ ownerPoolName \notin DOMAIN entries

\* the blocks of a sibling's result copied for the container: same size,
\* same identifier, joined on that identifier; acc is [st, blocks]
RECURSIVE reuseBlocks(_, _, _)
reuseBlocks(acc, result, i) ==
    IF i > Len(result) THEN acc
    ELSE
      LET block == acc.st.heap[result[i]]
          s1 == NewBlock(acc.st, block.Result, block.BlockId)
          s2 == join(s1, LastBlock(s1), block.BlockId)
      IN reuseBlocks([st |-> s2, blocks |-> Append(acc.blocks, LastBlock(s1))],
                     result, i + 1)

\* a sidecar that generates blocks of its own
siblingBlocks_fresh(st, podUID, numaID, size) ==
    LET s1 == standaloneBlock(st, size)
    IN [st |-> s1, blocks |-> <<LastBlock(s1)>>]

\* the pod already has an entry: the blocks of the first container entry
\* that has a result for the NUMA id are reused
siblingBlocks(st, podUID, numaID, size) ==
    LET with == {c \in DOMAIN st.entries[podUID] :
                    numaID \in DOMAIN st.entries[podUID][c].Numas}
    IN IF with = {} THEN [st |-> st, blocks |-> <<>>]
       ELSE reuseBlocks([st |-> st, blocks |-> <<>>],
                        st.entries[podUID][CHOOSE c \in with : TRUE].Numas[numaID], 1)

\* a reclaimed block is joined whether or not it has an overlap target
claimable_always(block) == TRUE

\* the test a reclaimed block passes to be joined by a container
claimable(block) == block.OverlapTargets = {}

\* the loop over the blocks of the reclaim pool on one NUMA id: a new block
\* joined with every reclaimed block that has no overlap target yet
RECURSIVE claimBlocks(_, _, _, _)
claimBlocks(acc, reclaimed, size, i) ==
    IF i > Len(reclaimed) THEN acc
    ELSE
      LET block == acc.st.heap[reclaimed[i]]
          acc2 == IF claimable(block)
                  THEN LET s1 == NewBlock(acc.st, size, NoBlockId)
                       IN [st |-> join(s1, LastBlock(s1), block.BlockId),
                           blocks |-> Append(acc.blocks, LastBlock(s1))]
                  ELSE acc
      IN claimBlocks(acc2, reclaimed, size, i + 1)

\* the reclaim pool is looked up as a whole, not on the NUMA id
firstBlocks_anyNuma(st, numaID, size) ==
    IF PoolNameReclaim \notin DOMAIN st.entries
    THEN LET s1 == standaloneBlock(st, size)
         IN [st |-> s1, blocks |-> <<LastBlock(s1)>>]
    ELSE IF HasNumaCalculationResult(st.entries, PoolNameReclaim, FakedContainerName,
                                     numaID)
    THEN claimBlocks([st |-> st, blocks |-> <<>>],
                     getNumaCalculationResult(st.entries, PoolNameReclaim,
                                              FakedContainerName, numaID),
                     size, 1)
    ELSE [st |-> st, blocks |-> <<>>]

\* the pod appears first: a standalone block when the reclaim pool has no
\* result for the NUMA id, else blocks joined with the reclaimed blocks
firstBlocks(st, numaID, size) ==
    IF ~ HasNumaCalculationResult(st.entries, PoolNameReclaim, FakedContainerName,
                                  numaID)
    THEN LET s1 == standaloneBlock(st, size)
         IN [st |-> s1, blocks |-> <<LastBlock(s1)>>]
    ELSE claimBlocks([st |-> st, blocks |-> <<>>],
                     getNumaCalculationResult(st.entries, PoolNameReclaim,
                                              FakedContainerName, numaID),
                     size, 1)

\* the loop of assemblePodEntries over ci.TopologyAwareAssignments; acc is
\* [st, res]
RECURSIVE assembleContainerNumas(_, _, _, _, _)
assembleContainerNumas(acc, podUID, ci, order, i) ==
    IF i > Len(order) THEN acc
    ELSE
      LET numaID == order[i]
          size == Cardinality(ci.TopologyAwareAssignments[numaID])
          r == IF podUID \in DOMAIN acc.st.entries
               THEN siblingBlocks(acc.st, podUID, numaID, size)
               ELSE firstBlocks(acc.st, numaID, size)
      IN assembleContainerNumas([st |-> r.st,
                                 res |-> MapPut(acc.res, numaID, r.blocks)],
                                podUID, ci, order, i + 1)

\* cpuServer.assemblePodEntries
assemblePodEntries(st, podUID, ci) ==
    LET ownerPoolName == PublishedOwnerPool(ci) IN
    IF omitContainer(st.entries, ci, ownerPoolName) THEN st
    ELSE
      LET r == IF IsDedicatedNumaBinding(ci)
               THEN assembleContainerNumas([st |-> st, res |-> EmptyMap], podUID, ci,
                        RangeOrder(DOMAIN ci.TopologyAwareAssignments), 1)
               ELSE [st |-> st, res |-> EmptyMap]
          old == IF podUID \in DOMAIN r.st.entries THEN r.st.entries[podUID]
                 ELSE EmptyMap
          info == [OwnerPoolName |-> ownerPoolName, Numas |-> r.res]
      IN [r.st EXCEPT !.entries = MapPut(@, podUID, MapPut(old, ci.ContainerName, info))]

\* metaCache.RangeContainer(f) of assembleResponse over the containers in
\* the order given
RECURSIVE assembleContainers(_, _, _)
assembleContainers(st, containers, i) ==
    IF i > Len(containers) THEN st
    ELSE assembleContainers(assemblePodEntries(st, containers[i].PodUID, containers[i]),
                            containers, i + 1)

\* cpuServer.assembleResponse: the calculation entries and their blocks
assembleResponse(advisorResp, containers, poolOrder) ==
    assembleContainers(assemblePoolEntries(EmptyAssembly, advisorResp, poolOrder),
                       containers, 1)

(***************************************************************************)
(* The extra entries of the response: the advisor's extra entries merged   *)
(* by cgroup path, then the per-NUMA headroom entry.                       *)
(***************************************************************************)
ControlKnobKeyCPUNUMAHeadroom == "cpu_numa_headroom"

\* the loop over retEntry.Values: the values of retEntry written over those
\* of respEntry key by key
mergeValues(values, retValues) ==
    [k \in DOMAIN values \cup DOMAIN retValues |->
        IF k \in DOMAIN retValues THEN retValues[k] ELSE values[k]]

\* every extra entry of the advisor appended as it comes
mergeExtraEntries_append(extraEntries, retEntries, i) ==
    extraEntries \o retEntries

\* the loop of assembleResponse over advisorResp.ExtraEntries: an entry whose
\* cgroup path the response already has is merged into the first such entry,
\* any other is appended
RECURSIVE mergeExtraEntries(_, _, _)
mergeExtraEntries(extraEntries, retEntries, i) ==
    IF i > Len(retEntries) THEN extraEntries
    ELSE
      LET retEntry == retEntries[i]
          at == {j \in DOMAIN extraEntries :
                    extraEntries[j].CgroupPath = retEntry.CgroupPath}
          first == CHOOSE j \in at : \A k \in at : j <= k
          merged == IF at # {}
                    THEN [extraEntries EXCEPT
                             ![first].Values = mergeValues(@, retEntry.Values)]
                    ELSE Append(extraEntries, [CgroupPath |-> retEntry.CgroupPath,
                                               Values |-> retEntry.Values])
      IN mergeExtraEntries(merged, retEntries, i + 1)

\* json.Marshal of numaHeadroom: per NUMA id the allocatable milli-value
\* divided by 1000, as its whole part and its thousandths
MarshalHeadroom(numaAllocatable) ==
    [n \in DOMAIN numaAllocatable |->
        <<numaAllocatable[n] \div 1000, numaAllocatable[n] % 1000>>]

\* cpuServer.assembleHeadroom: no entry when GetNumaAllocatable fails, else
\* one entry with the empty cgroup path
assembleHeadroom(allocatable) ==
    IF allocatable.err THEN <<>>
    ELSE <<[CgroupPath |-> "",
            Values |-> (ControlKnobKeyCPUNUMAHeadroom :> MarshalHeadroom(allocatable.value))]>>

\* resp.ExtraEntries as assembleResponse returns them
assembleExtraEntries(advisorResp, allocatable) ==
    mergeExtraEntries(<<>>, advisorResp.ExtraEntries, 1) \o assembleHeadroom(allocatable)

(***************************************************************************)
(* Inputs of the loop specification.                                       *)
(***************************************************************************)
ContainerNames == {"main", "sidecar"}

LoopPods == {"pod1"}

\* the containers other actors add to the cache while the loop runs
LoopContainers == {"main"}

\* wire assignments of the checkpoints the plugin reports to the loop
ReserveWire == (0 :> <<0>>)
ShareWire == (0 :> <<1, 2, 1>>)
ContainerWire == (0 :> <<3>>)

LoopPoolEntry(name) ==
    (FakedContainerName :>
        AllocationInfo(name, FALSE,
                       IF name = PoolNameReserve THEN ReserveWire ELSE ShareWire,
                       IF name = PoolNameReserve THEN ReserveWire ELSE ShareWire))

LoopPodEntry(names) ==
    [n \in names |-> AllocationInfo(PoolNameShare, FALSE, ContainerWire, ContainerWire)]

\* checkpoints GetCheckpoint may return to the loop: the reserve pool is
\* reported or not; pod1 is absent, or reports main, or reports sidecar only
LoopCheckpoints ==
    {[Entries |-> [e \in ps \cup pods |->
                      IF e \in ps THEN LoopPoolEntry(e) ELSE LoopPodEntry(ns)]] :
        ps \in {{}, {PoolNameReserve}},
        pods \in {{}, LoopPods},
        ns \in {{"main"}, {"sidecar"}}}

\* results of the pod lookup and of the QoS classification during one
\* reconciliation of the loop
LoopEnvs ==
    {[podErr |-> pe, qos |-> [p \in LoopPods |-> QoSLevelSharedCores]] :
        pe \in {{}}}

NoResp == [Entries |-> EmptyMap]

NoTimer == [state |-> "none", deadline |-> 0]

NoEnv == [podErr |-> {}, qos |-> EmptyMap]

\* no reconciliation recorded yet
NoSyncHist ==
    [n |-> 0, r |-> NoResp, env |-> NoEnv, before |-> EmptyCache,
     after |-> EmptyCache, seenBefore |-> {}, seen |-> {}]

(***************************************************************************)
(* cpuServer.ListAndWatch                                                  *)
(***************************************************************************)
\* the clock stops counting at MaxTime: later readings give MaxTime again
ClockAfter(t, d) == IF t + d > MaxTime THEN MaxTime ELSE t + d

\* a Store(true) in place of the Swap: the old value is never seen
SwapTrue_noTest(flag) == [stored |-> TRUE, old |-> FALSE]

\* atomic.Value.Swap(true): the value stored and the value returned
SwapTrue(flag) == [stored |-> TRUE, old |-> flag]

\* lines 101-105: the single-flight test; the call that finds the flag set
\* returns the error at once
Enter(c) ==
    /\ pc[c] = "idle"
    /\ LET sw == SwapTrue(hasListAndWatchLoop) IN
       /\ hasListAndWatchLoop' = sw.stored
       /\ IF sw.old
          THEN /\ pc' = [pc EXCEPT ![c] = "returned"]
               /\ ret' = [ret EXCEPT ![c] = "another ListAndWatch loop is running"]
          ELSE /\ pc' = [pc EXCEPT ![c] = "createClient"]
               /\ ret' = ret
    /\ UNCHANGED <<ctxDone, stopped, timer, health, now, metaCache, safeTime,
                   resp, tickErr, tickLog, preTick, preSync, syncHist, asmHist>>

\* createQRMClient fails and the call returns with the flag still set
CreateClientFail_noRelease(c) ==
    /\ pc[c] = "createClient"
    /\ pc' = [pc EXCEPT ![c] = "returned"]
    /\ ret' = [ret EXCEPT ![c] = "create cpu plugin client failed"]
    /\ UNCHANGED <<hasListAndWatchLoop, ctxDone, stopped, timer, health, now,
                   metaCache, safeTime, resp, tickErr, tickLog, preTick, preSync,
                   syncHist, asmHist>>

\* lines 107-112: createQRMClient fails, the call returns through the
\* deferred flag reset alone
CreateClientFail(c) ==
    /\ pc[c] = "createClient"
    /\ pc' = [pc EXCEPT ![c] = "release"]
    /\ ret' = [ret EXCEPT ![c] = "create cpu plugin client failed"]
    /\ UNCHANGED <<hasListAndWatchLoop, ctxDone, stopped, timer, health, now,
                   metaCache, safeTime, resp, tickErr, tickLog, preTick, preSync, syncHist, asmHist>>

\* lines 107-124: the client is created, the heartbeat check registered and
\* the timer armed with the period
StartLoop(c) ==
    /\ pc[c] = "createClient"
    /\ pc' = [pc EXCEPT ![c] = "select"]
    /\ health' = [registered |-> TRUE, state |-> "notReady"]
    /\ timer' = [timer EXCEPT ![c] = [state |-> "armed", deadline |-> ClockAfter(now, Period)]]
    /\ UNCHANGED <<hasListAndWatchLoop, ret, ctxDone, stopped, now, metaCache,
                   safeTime, resp, tickErr, tickLog, preTick, preSync, syncHist, asmHist>>

\* the runtime delivers the time value into timer.C when the deadline passes
TimerFire(c) ==
    /\ timer[c].state = "armed"
    /\ now >= timer[c].deadline
    /\ timer' = [timer EXCEPT ![c] = [state |-> "fired", deadline |-> 0]]
    /\ UNCHANGED <<hasListAndWatchLoop, pc, ret, ctxDone, stopped, health, now,
                   metaCache, safeTime, resp, tickErr, tickLog, preTick, preSync, syncHist, asmHist>>

\* a select that has no stopCh branch
ExitReady_ctxOnly(c) == ctxDone[c]

\* whether the select of the loop may take an exit branch
ExitReady(c) == ctxDone[c] \/ stopped

\* lines 128-133: the stream context is done or stopCh is closed
SelectExit(c) ==
    /\ pc[c] = "select"
    /\ ExitReady(c)
    /\ pc' = [pc EXCEPT ![c] = "stopTimer"]
    /\ ret' = [ret EXCEPT ![c] = "nil"]
    /\ UNCHANGED <<hasListAndWatchLoop, ctxDone, stopped, timer, health, now,
                   metaCache, safeTime, resp, tickErr, tickLog, preTick, preSync, syncHist, asmHist>>

\* safeTime read after the fetch, when syncCheckpoint is called
SampleSafeTime_atSync(sampledBeforeFetch, clockAtSync) == clockAtSync

\* the fence getAndSyncCheckpoint hands to syncCheckpoint: the clock value
\* read at line 148, before the fetch
SampleSafeTime(sampledBeforeFetch, clockAtSync) == sampledBeforeFetch

\* the timer is re-armed as soon as its value is received
TimerAfterReceive_rearmed(t) == [state |-> "armed", deadline |-> ClockAfter(t, Period)]

\* line 134: the timer after the select received its value from timer.C; it
\* is not armed and its channel is empty
TimerAfterReceive(t) == [state |-> "expired", deadline |-> 0]

\* lines 134-136 and 148: the timer value is received, getAndPushAdvice
\* begins and getAndSyncCheckpoint samples safeTime
SelectTimer(c) ==
    /\ pc[c] = "select"
    /\ timer[c].state = "fired"
    /\ timer' = [timer EXCEPT ![c] = TimerAfterReceive(now)]
    /\ safeTime' = [safeTime EXCEPT ![c] = now]
    /\ preTick' = [preTick EXCEPT ![c] = DOMAIN metaCache.containers]
    /\ now' = ClockAfter(now, 1)
    /\ pc' = [pc EXCEPT ![c] = "fetch"]
    /\ tickLog' = [tickLog EXCEPT ![c] = <<>>]
    /\ UNCHANGED <<hasListAndWatchLoop, ret, ctxDone, stopped, health, metaCache,
                   resp, tickErr, preSync, syncHist, asmHist>>

\* the fetch error is not tested and the reconciliation runs
AfterFetch_ignoreErr(outcome) == [pc |-> "sync", err |-> "none"]

\* where getAndSyncCheckpoint goes after client.GetCheckpoint returned
\* outcome "err", "nil" or "ok" (lines 152-162)
AfterFetch(outcome) ==
    IF outcome = "err" THEN [pc |-> "report", err |-> "get checkpoint failed"]
    ELSE IF outcome = "nil" THEN [pc |-> "report", err |-> "got nil checkpoint"]
    ELSE [pc |-> "sync", err |-> "none"]

\* line 151: client.GetCheckpoint returns
Fetch(c, outcome, r) ==
    /\ pc[c] = "fetch"
    /\ LET nxt == AfterFetch(outcome) IN
       /\ pc' = [pc EXCEPT ![c] = nxt.pc]
       /\ tickErr' = [tickErr EXCEPT ![c] = nxt.err]
    /\ resp' = [resp EXCEPT ![c] = IF outcome = "ok" THEN r ELSE NoResp]
    /\ tickLog' = [tickLog EXCEPT ![c] = Append(@, <<"fetch", outcome>>)]
    /\ UNCHANGED <<hasListAndWatchLoop, ret, ctxDone, stopped, timer, health, now,
                   metaCache, safeTime, preTick, preSync, syncHist, asmHist>>

\* line 162: syncCheckpoint reconciles the fetched checkpoint into the cache
Sync(c, env, order1, order2) ==
    /\ pc[c] = "sync"
    /\ metaCache' = syncCheckpoint(metaCache, resp[c],
                                   SampleSafeTime(safeTime[c], now),
                                   env, order1, order2)
    /\ pc' = [pc EXCEPT ![c] = "gate"]
    /\ tickLog' = [tickLog EXCEPT ![c] = Append(@, <<"reconcile", "ok">>)]
    /\ preSync' = [preSync EXCEPT ![c] = DOMAIN metaCache.containers]
    /\ UNCHANGED <<hasListAndWatchLoop, ret, ctxDone, stopped, timer, health, now,
                   safeTime, resp, tickErr, preTick, syncHist, asmHist>>

\* the gate without the reserve pool check
shouldTriggerAdvisorUpdate_noReserveCheck(mc, t) ==
    IF t < startTime + StartUpPeriod THEN FALSE ELSE TRUE

\* cpuServer.shouldTriggerAdvisorUpdate
shouldTriggerAdvisorUpdate(mc, t) ==
    IF t < startTime + StartUpPeriod THEN FALSE
    ELSE IF ~ HasPoolInfo(mc, PoolNameReserve) THEN FALSE
    ELSE TRUE

\* lines 192-194: the gate check; a closed gate ends the tick without error
Gate(c) ==
    /\ pc[c] = "gate"
    /\ IF shouldTriggerAdvisorUpdate(metaCache, now)
       THEN /\ pc' = [pc EXCEPT ![c] = "advise"]
            /\ tickErr' = tickErr
            /\ tickLog' = [tickLog EXCEPT ![c] = Append(@, <<"gate", "pass">>)]
       ELSE /\ pc' = [pc EXCEPT ![c] = "report"]
            /\ tickErr' = [tickErr EXCEPT ![c] = "nil"]
            /\ tickLog' = [tickLog EXCEPT ![c] = Append(@, <<"gate", "skip">>)]
    /\ UNCHANGED <<hasListAndWatchLoop, ret, ctxDone, stopped, timer, health, now,
                   metaCache, safeTime, resp, preTick, preSync, syncHist, asmHist>>

\* where getAndPushAdvice goes after resourceAdvisor.UpdateAndGetAdvice
\* returned outcome "err", "badtype" or "ok" (lines 197-210)
AfterAdvise(outcome) ==
    IF outcome = "err" THEN [pc |-> "report", err |-> "get advice failed"]
    ELSE IF outcome = "badtype" THEN [pc |-> "report", err |-> "invalid type"]
    ELSE [pc |-> "assemble", err |-> "none"]

\* lines 197-206: the advisory engine is invoked
Advise(c, outcome) ==
    /\ pc[c] = "advise"
    /\ LET nxt == AfterAdvise(outcome) IN
       /\ pc' = [pc EXCEPT ![c] = nxt.pc]
       /\ tickErr' = [tickErr EXCEPT ![c] = nxt.err]
    /\ tickLog' = [tickLog EXCEPT ![c] = Append(@, <<"advise", outcome>>)]
    /\ UNCHANGED <<hasListAndWatchLoop, ret, ctxDone, stopped, timer, health, now,
                   metaCache, safeTime, resp, preTick, preSync, syncHist, asmHist>>

\* line 210: assembleResponse builds the response from the advice and the cache
Assemble(c) ==
    /\ pc[c] = "assemble"
    /\ pc' = [pc EXCEPT ![c] = "push"]
    /\ tickLog' = [tickLog EXCEPT ![c] = Append(@, <<"assemble", "ok">>)]
    /\ UNCHANGED <<hasListAndWatchLoop, ret, ctxDone, stopped, timer, health, now,
                   metaCache, safeTime, resp, tickErr, preTick, preSync, syncHist, asmHist>>

\* lines 211-217: server.Send pushes the response, outcome "ok" or "err"
Push(c, outcome) ==
    /\ pc[c] = "push"
    /\ pc' = [pc EXCEPT ![c] = "report"]
    /\ tickErr' = [tickErr EXCEPT ![c] = IF outcome = "ok" THEN "nil" ELSE "send failed"]
    /\ tickLog' = [tickLog EXCEPT ![c] = Append(@, <<"push", outcome>>)]
    /\ UNCHANGED <<hasListAndWatchLoop, ret, ctxDone, stopped, timer, health, now,
                   metaCache, safeTime, resp, preTick, preSync, syncHist, asmHist>>

\* the loop returns when a tick fails
AfterTick_failStops(err) == IF err = "nil" THEN "select" ELSE "stopTimer"

\* where the loop continues after a tick that returned err (lines 136-144)
AfterTick(err) == "select"

\* the state UpdateHealthzStateByError records for the tick's error
HealthOf(err) == IF err = "nil" THEN "ok" ELSE "failed"

\* the loop goes back to the select without timer.Reset
TimerAfterTick_notReset(t) == [state |-> "expired", deadline |-> 0]

\* line 142: timer.Reset(cs.period) after the tick returned
TimerAfterTick(t) == [state |-> "armed", deadline |-> ClockAfter(t, Period)]

\* lines 136-142: the result of the tick is reported to the heartbeat check
\* and the timer is re-armed with the period
Report(c) ==
    /\ pc[c] = "report"
    /\ health' = [health EXCEPT !.state = HealthOf(tickErr[c])]
    /\ timer' = [timer EXCEPT ![c] = TimerAfterTick(now)]
    /\ pc' = [pc EXCEPT ![c] = AfterTick(tickErr[c])]
    /\ ret' = [ret EXCEPT ![c] = IF AfterTick(tickErr[c]) = "select" THEN @ ELSE tickErr[c]]
    /\ tickErr' = [tickErr EXCEPT ![c] = "none"]
    /\ tickLog' = [tickLog EXCEPT ![c] = <<>>]
    /\ preTick' = [preTick EXCEPT ![c] = {}]
    /\ resp' = [resp EXCEPT ![c] = NoResp]
    /\ safeTime' = [safeTime EXCEPT ![c] = 0]
    /\ preSync' = [preSync EXCEPT ![c] = {}]
    /\ UNCHANGED <<hasListAndWatchLoop, ctxDone, stopped, now, metaCache, syncHist, asmHist>>

\* lines 120-124, deferred: timer.Stop succeeds on an armed timer; on a fired
\* timer it fails and the pending value is drained; on a timer whose value
\* was already received the drain blocks
StopTimer(c) ==
    /\ pc[c] = "stopTimer"
    /\ timer[c].state \in {"armed", "fired"}
    /\ timer' = [timer EXCEPT ![c] = [state |-> "stopped", deadline |-> 0]]
    /\ pc' = [pc EXCEPT ![c] = "unregister"]
    /\ UNCHANGED <<hasListAndWatchLoop, ret, ctxDone, stopped, health, now,
                   metaCache, safeTime, resp, tickErr, tickLog, preTick, preSync, syncHist, asmHist>>

\* lines 113 and 117, deferred: the heartbeat check is unregistered and the
\* connection closed
Unregister(c) ==
    /\ pc[c] = "unregister"
    /\ health' = [registered |-> FALSE, state |-> "none"]
    /\ pc' = [pc EXCEPT ![c] = "release"]
    /\ UNCHANGED <<hasListAndWatchLoop, ret, ctxDone, stopped, timer, now,
                   metaCache, safeTime, resp, tickErr, tickLog, preTick, preSync, syncHist, asmHist>>

\* the value the deferred hasListAndWatchLoop.Store writes (line 105)
ReleasedFlag == FALSE

\* line 105, deferred: the flag is reset and the call returns
Release(c) ==
    /\ pc[c] = "release"
    /\ hasListAndWatchLoop' = ReleasedFlag
    /\ pc' = [pc EXCEPT ![c] = "returned"]
    /\ UNCHANGED <<ret, ctxDone, stopped, timer, health, now, metaCache, safeTime,
                   resp, tickErr, tickLog, preTick, preSync, syncHist, asmHist>>

(***************************************************************************)
(* The environment of the loop.                                            *)
(***************************************************************************)
\* a caller issues ListAndWatch again on a fresh stream
Reissue(c) ==
    /\ pc[c] = "returned"
    /\ pc' = [pc EXCEPT ![c] = "idle"]
    /\ ret' = [ret EXCEPT ![c] = "none"]
    /\ ctxDone' = [ctxDone EXCEPT ![c] = FALSE]
    /\ timer' = [timer EXCEPT ![c] = NoTimer]
    /\ UNCHANGED <<hasListAndWatchLoop, stopped, health, now, metaCache, safeTime,
                   resp, tickErr, tickLog, preTick, preSync, syncHist, asmHist>>

\* the stream of a call in progress is cancelled
CancelCtx(c) ==
    /\ pc[c] \notin {"idle", "returned"}
    /\ ~ ctxDone[c]
    /\ ctxDone' = [ctxDone EXCEPT ![c] = TRUE]
    /\ UNCHANGED <<hasListAndWatchLoop, pc, ret, stopped, timer, health, now,
                   metaCache, safeTime, resp, tickErr, tickLog, preTick, preSync, syncHist, asmHist>>

\* the server is stopped: stopCh is closed
Stop ==
    /\ ~ stopped
    /\ stopped' = TRUE
    /\ UNCHANGED <<hasListAndWatchLoop, pc, ret, ctxDone, timer, health, now,
                   metaCache, safeTime, resp, tickErr, tickLog, preTick, preSync, syncHist, asmHist>>

\* another actor adds a container to the cache
AddContainer(podUID, containerName, qosLevel, bound) ==
    /\ now < bound
    /\ ~ HasContainerInfo(metaCache, podUID, containerName)
    /\ metaCache' = AddContainerInfo(metaCache, podUID, containerName,
                        NewContainerInfo(podUID, containerName, qosLevel), now)
    /\ now' = now + 1
    /\ UNCHANGED <<loopVars, syncHist, asmHist>>

\* time passes
Advance ==
    /\ now < MaxTime
    /\ now' = now + 1
    /\ UNCHANGED <<metaCache, loopVars, syncHist, asmHist>>

\* no call of assembleResponse is recorded
NoAsmHist == [n |-> 0, advisorResp |-> [PoolEntries |-> EmptyMap,
                                        PoolOverlapInfo |-> EmptyMap,
                                        AllowSharedCoresOverlapReclaimedCores |-> FALSE,
                                        ExtraEntries |-> <<>>],
              containers |-> <<>>, poolOrder |-> <<>>, pools |-> EmptyAssembly,
              out |-> EmptyAssembly, headroom |-> <<>>, extraEntries |-> <<>>]

Init ==
    /\ hasListAndWatchLoop = FALSE
    /\ pc = [c \in Calls |-> "idle"]
    /\ ret = [c \in Calls |-> "none"]
    /\ ctxDone = [c \in Calls |-> FALSE]
    /\ stopped = FALSE
    /\ timer = [c \in Calls |-> NoTimer]
    /\ health = [registered |-> FALSE, state |-> "none"]
    /\ now = startTime
    /\ metaCache = EmptyCache
    /\ safeTime = [c \in Calls |-> 0]
    /\ resp = [c \in Calls |-> NoResp]
    /\ tickErr = [c \in Calls |-> "none"]
    /\ tickLog = [c \in Calls |-> <<>>]
    /\ preTick = [c \in Calls |-> {}]
    /\ preSync = [c \in Calls |-> {}]
    /\ syncHist = NoSyncHist
    /\ asmHist = NoAsmHist

Next ==
    \/ \E c \in Calls : Enter(c)
    \/ \E c \in Calls : CreateClientFail(c)
    \/ \E c \in Calls : StartLoop(c)
    \/ \E c \in Calls : TimerFire(c)
    \/ \E c \in Calls : SelectExit(c)
    \/ \E c \in Calls : SelectTimer(c)
    \/ \E c \in Calls, outcome \in {"err", "nil"} : Fetch(c, outcome, NoResp)
    \/ \E c \in Calls, r \in LoopCheckpoints : Fetch(c, "ok", r)
    \/ \E c \in Calls, env \in LoopEnvs :
          \E order1, order2 \in Orders(DOMAIN resp[c].Entries) :
              Sync(c, env, order1, order2)
    \/ \E c \in Calls : Gate(c)
    \/ \E c \in Calls, outcome \in {"err", "badtype", "ok"} : Advise(c, outcome)
    \/ \E c \in Calls : Assemble(c)
    \/ \E c \in Calls, outcome \in {"ok", "err"} : Push(c, outcome)
    \/ \E c \in Calls : Report(c)
    \/ \E c \in Calls : StopTimer(c)
    \/ \E c \in Calls : Unregister(c)
    \/ \E c \in Calls : Release(c)
    \/ \E c \in Calls : Reissue(c)
    \/ \E c \in Calls : CancelCtx(c)
    \/ Stop
    \/ \E p \in LoopPods, n \in LoopContainers :
          AddContainer(p, n, QoSLevelSharedCores, MaxTime)
    \/ Advance

Spec == Init /\ [][Next]_vars

(***************************************************************************)
(* Reconciliation on its own: syncCheckpoint applied to checkpoints, pod   *)
(* lookup results and QoS classifications drawn from wider sets, on the    *)
(* caches earlier reconciliations and AddContainer calls produce.  Every   *)
(* reconciliation is recorded in syncHist with its inputs and the cache    *)
(* before and after; Continue drops the record before the next step.       *)
(***************************************************************************)
SyncPods == {"pod1", "pod2"}

PoolNameBatch == "batch"

ShareWireA == (0 :> <<0, 1>>)
ShareWireB == (0 :> <<1>> @@ 1 :> <<2, 2>>)
BatchWire == (1 :> <<3>>)

SyncPoolEntry(owner, assign) ==
    (FakedContainerName :> AllocationInfo(owner, FALSE, assign, ShareWireA))

\* pool-level entries a checkpoint may carry: share with either assignment,
\* batch reported with an empty owner-pool name
SyncPoolEntries ==
    {EmptyMap,
     (PoolNameShare :> SyncPoolEntry(PoolNameShare, ShareWireA)),
     (PoolNameShare :> SyncPoolEntry(PoolNameShare, ShareWireB)),
     (PoolNameBatch :> SyncPoolEntry("", BatchWire)),
     (PoolNameShare :> SyncPoolEntry(PoolNameShare, ShareWireB))
        @@ (PoolNameBatch :> SyncPoolEntry("", BatchWire))}

SyncContainerInfo(owner) == AllocationInfo(owner, TRUE, ContainerWire, ContainerWire)

\* pod entries a checkpoint may carry
SyncPodEntries ==
    {EmptyMap}
    \cup {("pod1" :> ("main" :> SyncContainerInfo(o))) :
            o \in {"", PoolNameShare, PoolNameBatch}}
    \cup {("pod1" :> ("sidecar" :> SyncContainerInfo(PoolNameShare)))}
    \cup {("pod1" :> ("main" :> SyncContainerInfo(o)))
            @@ ("pod2" :> ("main" :> SyncContainerInfo(PoolNameShare))) :
            o \in {PoolNameShare, PoolNameBatch}}

SyncCheckpoints == {[Entries |-> ps @@ pods] : ps \in SyncPoolEntries, pods \in SyncPodEntries}

\* pod lookup and QoS classification results of one reconciliation
SyncEnvs ==
    {[podErr |-> {}, qos |-> ("pod1" :> q @@ "pod2" :> QoSLevelSharedCores)] :
        q \in {QoSLevelSharedCores, QoSLevelDedicatedCores, QoSErr}}
    \cup {[podErr |-> {"pod1"},
           qos |-> ("pod1" :> QoSLevelSharedCores @@ "pod2" :> QoSLevelSharedCores)]}

\* an iteration order of a map's keys and its reverse
TwoOrders(S) ==
    LET o == CHOOSE x \in Orders(S) : TRUE
        n == Cardinality(S)
    IN {o, [i \in 1..n |-> o[n + 1 - i]]}

\* the containers for which updateContainerInfo runs to its final
\* SetContainerInfo during syncCheckpoint(mc, r, ...)
updatedContainers(mc, r, env) ==
    {k \in DOMAIN mc.containers :
        /\ k[1] \in DOMAIN r.Entries
        /\ ~ IsPoolEntry(r.Entries[k[1]])
        /\ k[2] \in DOMAIN r.Entries[k[1]]
        /\ k[1] \notin env.podErr
        /\ env.qos[k[1]] # QoSErr}

\* one call of syncCheckpoint, with a safeTime sampled after every cached
\* container was created
Reconcile(r, env, order1, order2) ==
    /\ syncHist.n = 0
    /\ LET after == syncCheckpoint(metaCache, r, ClockAfter(now, 1), env, order1, order2) IN
       /\ metaCache' = after
       /\ syncHist' = [n |-> 1, r |-> r, env |-> env, before |-> metaCache,
                       after |-> after, seenBefore |-> syncHist.seen,
                       seen |-> (syncHist.seen \cup updatedContainers(metaCache, r, env))
                                   \cap DOMAIN after.containers]
    /\ UNCHANGED <<now, loopVars, asmHist>>

\* the record of the reconciliation is dropped; what stays is which cached
\* containers a reconciliation has updated since they were added
Continue ==
    /\ syncHist.n = 1
    /\ syncHist' = [NoSyncHist EXCEPT !.seen = syncHist.seen]
    /\ UNCHANGED <<now, metaCache, loopVars, asmHist>>

\* another actor adds a container to the cache between two reconciliations
SyncAddContainer(podUID, containerName, qosLevel) ==
    /\ syncHist.n = 0
    /\ ~ HasContainerInfo(metaCache, podUID, containerName)
    /\ metaCache' = AddContainerInfo(metaCache, podUID, containerName,
                        NewContainerInfo(podUID, containerName, qosLevel), now)
    /\ UNCHANGED <<now, loopVars, syncHist, asmHist>>

SyncNext ==
    \/ \E r \in SyncCheckpoints, env \in SyncEnvs :
          \E order \in TwoOrders(DOMAIN r.Entries) : Reconcile(r, env, order, order)
    \/ Continue
    \/ \E p \in SyncPods : SyncAddContainer(p, "main", QoSLevelSharedCores)

SyncSpec == Init /\ [][SyncNext]_vars

(***************************************************************************)
(* Assembly on its own: assembleResponse applied to advisor results and to *)
(* cached containers drawn from bounded sets.  Every call is recorded in   *)
(* asmHist with its inputs, the assembly after assemblePoolEntries and the *)
(* assembly at the end; AsmContinue drops the record.                      *)
(***************************************************************************)
\* the containers one RangeContainer visits, at most
MaxAssembled == 2

PoolNameDedicated == "dedicated"

\* advisorResp.PoolEntries: share on NUMA 0 or on both, batch on NUMA 0,
\* reclaim on NUMA 0 or on both, each present or not
AsmPoolEntries ==
    {sh @@ ba @@ re :
        sh \in {EmptyMap, (PoolNameShare :> (0 :> 4)),
                (PoolNameShare :> (0 :> 4 @@ 1 :> 4))},
        ba \in {EmptyMap, (PoolNameBatch :> (0 :> 3))},
        re \in {EmptyMap, (PoolNameReclaim :> (0 :> 2)),
                (PoolNameReclaim :> (0 :> 2 @@ 1 :> 2))}}

\* the overlap sizes of the reclaim pool: none, against share on NUMA 0,
\* against share and batch on NUMA 0, against share on NUMA 1
AsmOverlapInfos ==
    {EmptyMap,
     (PoolNameReclaim :> (0 :> (PoolNameShare :> 1))),
     (PoolNameReclaim :> (0 :> (PoolNameShare :> 1 @@ PoolNameBatch :> 1))),
     (PoolNameReclaim :> (1 :> (PoolNameShare :> 1)))}

\* results of the advisor (types.InternalCPUCalculationResult)
AdvisorResults ==
    {[PoolEntries |-> pe, PoolOverlapInfo |-> EmptyMap,
      AllowSharedCoresOverlapReclaimedCores |-> FALSE,
      ExtraEntries |-> <<>>] : pe \in AsmPoolEntries}
    \cup {[PoolEntries |-> pe, PoolOverlapInfo |-> oi,
           AllowSharedCoresOverlapReclaimedCores |-> TRUE,
           ExtraEntries |-> <<>>] :
            pe \in AsmPoolEntries, oi \in AsmOverlapInfos}

\* the extra entries one advisor result carries, at most
MaxExtra == 2

\* extra entries of the advisor: a cgroup path, empty or not, and values
AsmExtraEntries ==
    {[CgroupPath |-> path, Values |-> values] :
        path \in {"", "/kubepods/besteffort"},
        values \in {("cpu_limit" :> "a"), ("cpu_limit" :> "b"), ("cpu_share" :> "a")}}

\* advisor results with extra entries, the share pool assembled or not
ExtraAdvisorResults ==
    {[PoolEntries |-> pe, PoolOverlapInfo |-> EmptyMap,
      AllowSharedCoresOverlapReclaimedCores |-> FALSE,
      ExtraEntries |-> ee] :
        pe \in {EmptyMap, (PoolNameShare :> (0 :> 4))},
        ee \in UNION {[1..n -> AsmExtraEntries] : n \in 0..MaxExtra}}

\* results of headroomResourceManager.GetNumaAllocatable: an error, or the
\* allocatable milli-CPUs per NUMA id
NumaAllocatables ==
    {[err |-> TRUE, value |-> EmptyMap],
     [err |-> FALSE, value |-> (0 :> 4000 @@ 1 :> 2500)]}

AsmContainer(podUID, containerName, qosLevel, numaBinding, owner, origin, isolated, regions, assign) ==
    [PodUID |-> podUID, ContainerName |-> containerName, QoSLevel |-> qosLevel,
     NumaBinding |-> numaBinding, OwnerPoolName |-> owner,
     OriginOwnerPoolName |-> origin, Isolated |-> isolated,
     RegionNames |-> regions, TopologyAwareAssignments |-> assign]

DedicatedContainer(podUID, containerName, numaBinding, assign) ==
    AsmContainer(podUID, containerName, QoSLevelDedicatedCores, numaBinding,
                 PoolNameDedicated, PoolNameDedicated, FALSE, {}, assign)

\* dedicated containers of the cache: main and sidecar of pod1 on the same
\* or on different NUMA ids and cpuset sizes, main of pod2
AsmDedicated ==
    {DedicatedContainer("pod1", "main", TRUE, (1 :> {2, 3})),
     DedicatedContainer("pod1", "main", TRUE, (0 :> {0, 1} @@ 1 :> {2, 3})),
     DedicatedContainer("pod1", "sidecar", TRUE, (1 :> {2, 3})),
     DedicatedContainer("pod1", "sidecar", TRUE, (1 :> {2})),
     DedicatedContainer("pod1", "sidecar", TRUE, (0 :> {0})),
     DedicatedContainer("pod2", "main", TRUE, (1 :> {4, 5, 6})),
     DedicatedContainer("pod2", "main", TRUE, (0 :> {0, 1})),
     DedicatedContainer("pod2", "main", FALSE, (1 :> {4, 5, 6}))}

\* shared_cores and reclaimed_cores containers of the cache
AsmShared ==
    {AsmContainer("pod3", "main", QoSLevelSharedCores, FALSE, x[1], x[2], x[3], x[4],
                  (0 :> {0, 1})) :
        x \in {<<PoolNameShare, PoolNameShare, FALSE, {}>>,
               <<"", "", FALSE, {}>>,
               <<PoolNameBatch, PoolNameShare, FALSE, {}>>,
               <<PoolNameShare, "", FALSE, {}>>,
               <<PoolNameShare, PoolNameShare, TRUE, {PoolNameBatch}>>,
               <<PoolNameShare, PoolNameShare, TRUE, {PoolNameShare}>>,
               <<PoolNameShare, PoolNameBatch, TRUE, {PoolNameBatch, PoolNameDedicated}>>}}
    \cup {AsmContainer("pod3", "main", QoSLevelReclaimedCores, FALSE,
                       PoolNameReclaim, PoolNameReclaim, FALSE, {}, (0 :> {0, 1}))}

\* the containers RangeContainer visits, in the order it visits them
AsmContainerLists ==
    UNION {{l \in [1..n -> AsmDedicated \cup AsmShared] :
               \A i, j \in 1..n :
                   (i # j) => <<l[i].PodUID, l[i].ContainerName>>
                                  # <<l[j].PodUID, l[j].ContainerName>>} :
           n \in 0..MaxAssembled}

\* one call of assembleResponse
AssembleCall(advisorResp, containers, poolOrder, allocatable) ==
    /\ asmHist.n = 0
    /\ asmHist' = [n |-> 1, advisorResp |-> advisorResp, containers |-> containers,
                   poolOrder |-> poolOrder,
                   pools |-> assemblePoolEntries(EmptyAssembly, advisorResp, poolOrder),
                   out |-> assembleResponse(advisorResp, containers, poolOrder),
                   headroom |-> assembleHeadroom(allocatable),
                   extraEntries |-> assembleExtraEntries(advisorResp, allocatable)]
    /\ UNCHANGED <<now, metaCache, loopVars, syncHist>>

\* the record of the call is dropped
AsmContinue ==
    /\ asmHist.n = 1
    /\ asmHist' = NoAsmHist
    /\ UNCHANGED <<now, metaCache, loopVars, syncHist>>

AsmNext ==
    \/ /\ asmHist.n = 0
       /\ \E advisorResp \in AdvisorResults, containers \in AsmContainerLists :
             \E poolOrder \in TwoOrders(DOMAIN advisorResp.PoolEntries) :
                 AssembleCall(advisorResp, containers, poolOrder,
                              CHOOSE a \in NumaAllocatables : ~ a.err)
    \/ /\ asmHist.n = 0
       /\ \E advisorResp \in ExtraAdvisorResults, allocatable \in NumaAllocatables :
             \E poolOrder \in TwoOrders(DOMAIN advisorResp.PoolEntries) :
                 AssembleCall(advisorResp, <<>>, poolOrder, allocatable)
    \/ AsmContinue

AsmSpec == Init /\ [][AsmNext]_vars

(***************************************************************************)
(* Properties of the loop (specification Spec).                            *)
(***************************************************************************)
ErrRunning == "another ListAndWatch loop is running"

\* a call past the flag test that has not returned
Active(c) == pc[c] \notin {"idle", "returned"}

\* a call in the for/select loop or in a tick
InLoop(c) == pc[c] \in {"select", "fetch", "sync", "gate", "advise", "assemble",
                        "push", "report"}

InTick(c) == pc[c] \in {"fetch", "sync", "gate", "advise", "assemble", "push", "report"}

C1_AtMostOne ==
    /\ Cardinality({c \in Calls : Active(c)}) <= 1
    /\ \A c \in Calls : ret[c] = ErrRunning =>
          pc[c] = "returned" /\ tickLog[c] = <<>> /\ timer[c] = NoTimer

C1_RejectStep ==
    \A c \in Calls :
        (pc[c] = "idle" /\ pc'[c] # "idle" /\ hasListAndWatchLoop) =>
            /\ pc'[c] = "returned"
            /\ ret'[c] = ErrRunning
            /\ hasListAndWatchLoop'
            /\ metaCache' = metaCache
            /\ UNCHANGED <<timer, health, tickLog, resp, safeTime>>

\* C1: at most one ListAndWatch call is past the flag test at any time; a
\* call that finds the flag set returns the "another ListAndWatch loop is
\* running" error in one step, runs no tick, touches neither cache, timer nor
\* health check, and leaves the flag set.
C1_SingleFlight == []C1_AtMostOne /\ [][C1_RejectStep]_vars

\* one call is reconciling while another was rejected
C1_Witness ==
    \E c1, c2 \in Calls :
        pc[c1] = "sync" /\ pc[c2] = "returned" /\ ret[c2] = ErrRunning

NoOwner == \A c \in Calls : ~ Active(c)

C2_ReturnStep ==
    \A c \in Calls :
        /\ (Active(c) /\ pc'[c] = "returned") => hasListAndWatchLoop' = FALSE
        /\ (pc[c] = "idle" /\ pc'[c] # "idle" /\ NoOwner) => pc'[c] = "createClient"

\* C2: every call that acquired the flag has reset it when it returns, on
\* every exit path, so whenever no call is between the flag test and its
\* return the flag is false and the next call is admitted.
C2_FlagReleased ==
    [](NoOwner => hasListAndWatchLoop = FALSE) /\ [][C2_ReturnStep]_vars

\* a call streamed and returned nil, and a later call is admitted
C2_Witness ==
    \E c1, c2 \in Calls :
        pc[c1] = "returned" /\ ret[c1] = "nil" /\ pc[c2] = "select"

C4_Step ==
    \A c \in Calls :
        /\ (pc[c] = "report" /\ pc'[c] # "report" /\ tickErr[c] # "nil") =>
              /\ pc'[c] = "select"
              /\ health'.state = "failed"
              /\ timer'[c] = [state |-> "armed", deadline |-> ClockAfter(now, Period)]
        /\ (InLoop(c) /\ ~ InLoop(c)') =>
              /\ pc[c] = "select"
              /\ ctxDone[c] \/ stopped
              /\ pc'[c] = "stopTimer"

\* C4: a tick that failed (fetch error or nil checkpoint, advice error or
\* wrong type, send error) ends with the failure reported to the health
\* check, the timer re-armed with the period and the call back at the
\* select; the loop is left only from the select, on a cancelled stream
\* context or a closed stopCh.
C4_FailedTickContinues == [][C4_Step]_vars

\* a tick is running after a failed tick was reported
C4_Witness ==
    \E c \in Calls : pc[c] = "sync" /\ health.state = "failed"

TickSteps == <<"fetch", "reconcile", "gate", "advise", "assemble", "push">>

C5_LogOrdered ==
    \A c \in Calls :
        /\ Len(tickLog[c]) <= Len(TickSteps)
        /\ \A i \in 1..Len(tickLog[c]) :
              /\ tickLog[c][i][1] = TickSteps[i]
              /\ i < Len(tickLog[c]) => tickLog[c][i][2] \in {"ok", "pass"}

C5_CacheStep ==
    (now' = now /\ metaCache' # metaCache) =>
        \E c \in Calls : /\ pc[c] = "sync" /\ pc'[c] = "gate"
                         /\ tickLog[c] = << <<"fetch", "ok">> >>

\* C5: the steps of a tick happen in the order fetch, reconcile, gate,
\* advise, assemble, push, each only after all earlier ones succeeded; the
\* loop changes the cache only in the reconcile step of a tick whose fetch
\* succeeded.
C5_TickOrder == []C5_LogOrdered /\ [][C5_CacheStep]_vars

\* a tick went through all six steps and pushed
C5_Witness ==
    \E c \in Calls : Len(tickLog[c]) = 6 /\ tickLog[c][6] = <<"push", "ok">>

C6_Step ==
    \A c \in Calls :
        /\ ( /\ pc[c] = "gate" /\ pc'[c] # "gate"
             /\ \/ now < startTime + StartUpPeriod
                \/ PoolNameReserve \notin DOMAIN metaCache.pools ) =>
              /\ pc'[c] = "report"
              /\ tickErr'[c] = "nil"
              /\ tickLog[c] = << <<"fetch", "ok">>, <<"reconcile", "ok">> >>
              /\ metaCache' = metaCache
        /\ ( /\ pc[c] = "report" /\ pc'[c] # "report"
             /\ Len(tickLog[c]) = 3 /\ tickLog[c][3] = <<"gate", "skip">> ) =>
              /\ health'.state = "ok"
              /\ pc'[c] = "select"

\* C6: in a tick whose gate check falls in the startup window, or finds no
\* reserve pool in the cache, the checkpoint has been reconciled, the
\* advisory engine is not invoked, nothing is pushed and the tick is
\* reported to the health check as a success.
C6_GateSkips == [][C6_Step]_vars

\* a tick skipped at the gate after its reconciliation stored the reserve pool
C6_Witness ==
    \E c \in Calls :
        /\ pc[c] = "report" /\ tickErr[c] = "nil"
        /\ Len(tickLog[c]) = 3 /\ tickLog[c][3] = <<"gate", "skip">>
        /\ PoolNameReserve \in DOMAIN metaCache.pools

\* the reconciliation of the tick in progress of call c has run
PostSync(c) == Len(tickLog[c]) >= 2

AbsentFrom(r, k) ==
    k[1] \notin DOMAIN r.Entries \/ k[2] \notin DOMAIN r.Entries[k[1]]

\* C9: a container cached when the tick sampled safeTime and absent from the
\* fetched checkpoint (no entry for its pod, or the pod's entry lacks its
\* name) is gone after the tick's reconciliation (a container under its key
\* can only be one added later); a container whose pod and name are in the
\* checkpoint is not deleted.
C9_ContainerGC ==
    \A c \in Calls : PostSync(c) =>
        \A k \in preSync[c] :
            /\ (k \in preTick[c] /\ AbsentFrom(resp[c], k)) =>
                  \/ k \notin DOMAIN metaCache.containers
                  \/ metaCache.createTime[k] > safeTime[c]
            /\ ~ AbsentFrom(resp[c], k) => k \in DOMAIN metaCache.containers

\* a container whose pod is in the checkpoint without its name was deleted
C9_Witness ==
    \E c \in Calls : \E k \in preSync[c] \cap preTick[c] :
        /\ PostSync(c)
        /\ k[1] \in DOMAIN resp[c].Entries
        /\ k[2] \notin DOMAIN resp[c].Entries[k[1]]
        /\ k \notin DOMAIN metaCache.containers

\* C10: a container added to the cache after the tick sampled safeTime
\* (before the fetch) has a creation time later than safeTime and survives
\* the tick's reconciliation, also when the checkpoint does not mention it.
C10_GCRaceSafe ==
    \A c \in Calls : PostSync(c) =>
        \A k \in preSync[c] \ preTick[c] :
            /\ k \in DOMAIN metaCache.containers
            /\ metaCache.createTime[k] > safeTime[c]

\* a container added during the fetch, absent from the checkpoint, survived
C10_Witness ==
    \E c \in Calls : \E k \in preSync[c] \ preTick[c] :
        /\ PostSync(c)
        /\ AbsentFrom(resp[c], k)
        /\ k \in DOMAIN metaCache.containers

(***************************************************************************)
(* Properties of the reconciliation (specification SyncSpec).              *)
(***************************************************************************)
\* the owner pool name the recorded checkpoint reports for container k
ReportedOwner(k) == syncHist.r.Entries[k[1]][k[2]].OwnerPoolName

RecordedUpdated == updatedContainers(syncHist.before, syncHist.r, syncHist.env)

\* C7 as stated: after a container's first update by a reconciliation, no
\* later reconciliation changes its OriginOwnerPoolName.
C7_Original ==
    syncHist.n = 1 =>
        \A k \in syncHist.seenBefore \cap DOMAIN syncHist.after.containers :
            syncHist.after.containers[k].OriginOwnerPoolName
                = syncHist.before.containers[k].OriginOwnerPoolName

\* C7 amended: an OriginOwnerPoolName that is not empty is never changed or
\* cleared by a reconciliation, whatever owner pool the checkpoint reports;
\* while it is empty, a reconciliation that updates the container sets it to
\* the owner pool name the checkpoint reports (which may be empty again),
\* and a reconciliation that does not update the container leaves it empty.
C7_OriginImmutableOnceSet ==
    syncHist.n = 1 =>
        \A k \in DOMAIN syncHist.before.containers \cap DOMAIN syncHist.after.containers :
            LET b == syncHist.before.containers[k].OriginOwnerPoolName
                a == syncHist.after.containers[k].OriginOwnerPoolName
            IN IF b # "" THEN a = b
               ELSE IF k \in RecordedUpdated THEN a = ReportedOwner(k)
               ELSE a = ""

\* a container whose origin owner pool was set is updated with another,
\* non-empty owner pool
C7_Witness ==
    /\ syncHist.n = 1
    /\ \E k \in RecordedUpdated :
          /\ syncHist.before.containers[k].OriginOwnerPoolName # ""
          /\ ReportedOwner(k) # ""
          /\ ReportedOwner(k) # syncHist.before.containers[k].OriginOwnerPoolName

\* C8: after syncCheckpoint, every updated non-dedicated container whose
\* non-empty owner pool has a pool-level entry in the same checkpoint carries
\* the assignment that checkpoint reports for the pool, in either iteration
\* order of the checkpoint map.
C8_PoolsBeforeContainers ==
    syncHist.n = 1 =>
        \A k \in RecordedUpdated :
            LET owner == ReportedOwner(k) IN
            ( /\ syncHist.env.qos[k[1]] # QoSLevelDedicatedCores
              /\ owner # ""
              /\ owner \in DOMAIN syncHist.r.Entries
              /\ FakedContainerName \in DOMAIN syncHist.r.Entries[owner] ) =>
                syncHist.after.containers[k].TopologyAwareAssignments
                    = TransformCPUAssignmentFormat(
                          syncHist.r.Entries[owner][FakedContainerName].TopologyAwareAssignments)

\* a container was updated whose owner pool the same checkpoint introduced
C8_Witness ==
    /\ syncHist.n = 1
    /\ \E k \in RecordedUpdated :
          /\ syncHist.env.qos[k[1]] # QoSLevelDedicatedCores
          /\ ReportedOwner(k) \in DOMAIN syncHist.r.Entries
          /\ ReportedOwner(k) \notin DOMAIN syncHist.before.pools
          /\ syncHist.after.containers[k].TopologyAwareAssignments
                # TransformCPUAssignmentFormat(ContainerWire)

(***************************************************************************)
(* Termination of the loop (specification LiveSpec).                       *)
(***************************************************************************)
\* a step of the tick in progress of call c: every call the tick makes returns
TickStep(c) ==
    \/ \E outcome \in {"err", "nil"} : Fetch(c, outcome, NoResp)
    \/ \E r \in LoopCheckpoints : Fetch(c, "ok", r)
    \/ \E env \in LoopEnvs :
          \E order1, order2 \in Orders(DOMAIN resp[c].Entries) :
              Sync(c, env, order1, order2)
    \/ Gate(c)
    \/ \E outcome \in {"err", "badtype", "ok"} : Advise(c, outcome)
    \/ Assemble(c)
    \/ \E outcome \in {"ok", "err"} : Push(c, outcome)
    \/ Report(c)

\* a step of the deferred calls of call c
ReturnStep(c) == StopTimer(c) \/ Unregister(c) \/ Release(c)

\* the goroutine of a call keeps running, and a select whose exit branch is
\* ready again and again takes it at some point (Go picks among the ready
\* branches at random)
LoopFairness ==
    \A c \in Calls :
        /\ WF_vars(TickStep(c))
        /\ WF_vars(ReturnStep(c))
        /\ SF_vars(SelectExit(c))

\* the loop and its signals: each call is issued once, and the container set
\* of the cache is left as it is
LiveNext ==
    \/ \E c \in Calls : Enter(c)
    \/ \E c \in Calls : CreateClientFail(c)
    \/ \E c \in Calls : StartLoop(c)
    \/ \E c \in Calls : TimerFire(c)
    \/ \E c \in Calls : SelectExit(c)
    \/ \E c \in Calls : SelectTimer(c)
    \/ \E c \in Calls : TickStep(c)
    \/ \E c \in Calls : ReturnStep(c)
    \/ \E c \in Calls : CancelCtx(c)
    \/ Stop
    \/ Advance

LiveSpec == Init /\ [][LiveNext]_vars /\ LoopFairness

\* C3: a call in the loop whose stream context is cancelled, or with stopCh
\* closed, returns at some point: it does not run ticks forever.
C3_ExitTerminates ==
    \A c \in Calls :
        (InLoop(c) /\ (ctxDone[c] \/ stopped)) ~> (pc[c] = "returned")

\* a call left the loop on the stop signal, its stream not cancelled, once
\* the startup period was over, and its health check is unregistered
C3_Witness ==
    \E c \in Calls :
        /\ pc[c] = "returned" /\ ret[c] = "nil"
        /\ stopped /\ ~ ctxDone[c]
        /\ health.state = "none" /\ now >= StartUpPeriod

(***************************************************************************)
(* Garbage collection and failures of the reconciliation (SyncSpec).       *)
(***************************************************************************)
\* the pool-level entries of the recorded checkpoint
RecordedPoolEntries ==
    {e \in DOMAIN syncHist.r.Entries : IsPoolEntry(syncHist.r.Entries[e])}

\* the pools of the cache when the recorded call reaches GCPoolEntries
PoolsBeforeGC == DOMAIN syncHist.before.pools \cup RecordedPoolEntries

\* C11 as stated: after reconciliation the current owner pool and the origin
\* owner pool of every surviving container are still cached if they were
\* cached before pool GC.
C11_Original ==
    syncHist.n = 1 =>
        \A k \in DOMAIN syncHist.after.containers :
            \A p \in {syncHist.after.containers[k].OwnerPoolName,
                      syncHist.after.containers[k].OriginOwnerPoolName} :
                p \in PoolsBeforeGC => p \in DOMAIN syncHist.after.pools

\* C11 amended: after reconciliation the origin owner pool of every surviving
\* container is still cached if it was cached before pool GC, even when the
\* checkpoint has no pool entry for it; a pool that survives is a pool entry
\* of the checkpoint or the origin owner pool of a surviving container, so a
\* pool named only as a current owner pool is removed.
C11_OriginPoolsSurvive ==
    syncHist.n = 1 =>
        /\ \A k \in DOMAIN syncHist.after.containers :
              LET p == syncHist.after.containers[k].OriginOwnerPoolName IN
              p \in PoolsBeforeGC => p \in DOMAIN syncHist.after.pools
        /\ \A p \in DOMAIN syncHist.after.pools :
              \/ p \in RecordedPoolEntries
              \/ \E k \in DOMAIN syncHist.after.containers :
                    syncHist.after.containers[k].OriginOwnerPoolName = p

\* a pool without an entry in the checkpoint survives as the origin owner
\* pool of a container whose current owner pool is another one
C11_Witness ==
    /\ syncHist.n = 1
    /\ \E k \in DOMAIN syncHist.after.containers :
          LET ci == syncHist.after.containers[k] IN
          /\ ci.OriginOwnerPoolName \in DOMAIN syncHist.after.pools
          /\ ci.OriginOwnerPoolName \notin RecordedPoolEntries
          /\ ci.OwnerPoolName # ci.OriginOwnerPoolName
          /\ ci.OwnerPoolName # ""

\* the cache when the recorded call has finished its pool loop
AfterPoolLoop ==
    parsePoolEntries([mc |-> syncHist.before, living |-> {}], syncHist.r,
                     CHOOSE o \in Orders(DOMAIN syncHist.r.Entries) : TRUE, 1).mc

\* the sub-entries of the recorded checkpoint whose update fails: the pod
\* lookup fails, the QoS classification fails, or the cache has no record
RecordedFailed ==
    {k \in {<<p, n>> : p \in SyncPods, n \in ContainerNames} :
        /\ k[1] \in DOMAIN syncHist.r.Entries
        /\ ~ IsPoolEntry(syncHist.r.Entries[k[1]])
        /\ k[2] \in DOMAIN syncHist.r.Entries[k[1]]
        /\ k \notin RecordedUpdated}

RecordedMentioned ==
    {k \in {<<p, n>> : p \in SyncPods, n \in ContainerNames} :
        /\ k[1] \in DOMAIN syncHist.r.Entries
        /\ ~ IsPoolEntry(syncHist.r.Entries[k[1]])
        /\ k[2] \in DOMAIN syncHist.r.Entries[k[1]]
        /\ k[1] \notin syncHist.env.podErr
        /\ syncHist.env.qos[k[1]] # QoSErr}

\* C13 as stated: after reconciliation every container sub-entry whose pod
\* lookup and QoS classification succeed has a record in the cache.
C13_Original ==
    syncHist.n = 1 => RecordedMentioned \subseteq DOMAIN syncHist.after.containers

\* C13 amended: reconciliation creates no container record; a sub-entry
\* whose pod lookup and QoS classification succeed has a record after the
\* call exactly when the cache held one before it.
C13_UpdateOnly ==
    syncHist.n = 1 =>
        /\ DOMAIN syncHist.after.containers \subseteq DOMAIN syncHist.before.containers
        /\ \A k \in RecordedMentioned :
              k \in DOMAIN syncHist.after.containers
                  <=> k \in DOMAIN syncHist.before.containers

\* a checkpoint names a container the cache has no record of, next to one it
\* holds
C13_Witness ==
    /\ syncHist.n = 1
    /\ \E k \in RecordedMentioned : k \notin DOMAIN syncHist.before.containers
    /\ \E k \in RecordedMentioned : k \in DOMAIN syncHist.after.containers

(***************************************************************************)
(* The assembled response (AsmSpec).                                       *)
(***************************************************************************)
\* the blocks of the result an entry of the assembly has on a NUMA id, none
\* when it has no result there
ResultBlocks(st, name, container, numa) ==
    IF HasNumaCalculationResult(st.entries, name, container, numa)
    THEN [i \in 1..Len(getNumaCalculationResult(st.entries, name, container, numa)) |->
             st.heap[getNumaCalculationResult(st.entries, name, container, numa)[i]]]
    ELSE <<>>

\* the pools that overlap the reclaim pool on a NUMA id and have a size there
OverlappedPools(advisorResp, numa) ==
    {S \in DOMAIN GetPoolOverlapInfo(advisorResp, PoolNameReclaim, numa) :
        /\ S \in DOMAIN advisorResp.PoolEntries
        /\ numa \in DOMAIN advisorResp.PoolEntries[S]}

\* an assembly with the overlap flag set and a reclaim pool
OverlapAssembled ==
    /\ asmHist.n = 1
    /\ asmHist.advisorResp.AllowSharedCoresOverlapReclaimedCores
    /\ PoolNameReclaim \in DOMAIN asmHist.advisorResp.PoolEntries

\* C14: when the overlap flag is set, on every NUMA id of the reclaim pool
\* for which overlap sizes against pools with an entry there are given, the
\* reclaim entry of the response holds exactly one block per such pool, of
\* the overlap size, whose only overlap target is the identifier of that
\* pool's single block there, in whatever order the pool map is ranged over
C14_ReclaimOverlapBlocks ==
    OverlapAssembled =>
        \A n \in DOMAIN asmHist.advisorResp.PoolEntries[PoolNameReclaim] :
            LET such == OverlappedPools(asmHist.advisorResp, n)
                overlapSize == GetPoolOverlapInfo(asmHist.advisorResp, PoolNameReclaim, n)
                blocks == ResultBlocks(asmHist.out, PoolNameReclaim, FakedContainerName, n)
            IN (such # {}) =>
                  /\ Len(blocks) = Cardinality(such)
                  /\ \A S \in such :
                        LET shared == ResultBlocks(asmHist.out, S, FakedContainerName, n)
                        IN /\ Len(shared) = 1
                           /\ Cardinality({i \in DOMAIN blocks :
                                  /\ blocks[i].Result = overlapSize[S]
                                  /\ blocks[i].OverlapTargets = {shared[1].BlockId}}) = 1

\* the range over the pool map meets the reclaim pool before a pool that
\* overlaps it, and two pools overlap the reclaim pool on NUMA 0
C14_Witness ==
    /\ OverlapAssembled
    /\ \E i, j \in DOMAIN asmHist.poolOrder :
          /\ i < j
          /\ asmHist.poolOrder[i] = PoolNameReclaim
          /\ asmHist.poolOrder[j] \in OverlappedPools(asmHist.advisorResp, 0)
    /\ OverlappedPools(asmHist.advisorResp, 0) = {PoolNameShare, PoolNameBatch}
    /\ Len(ResultBlocks(asmHist.out, PoolNameReclaim, FakedContainerName, 0)) = 2

\* the blocks of the results of one entry of the assembly
EntryBlocks(st, name) ==
    UNION {UNION {Range(st.entries[name][c].Numas[n]) :
                     n \in DOMAIN st.entries[name][c].Numas} :
           c \in DOMAIN st.entries[name]}

\* the blocks of the response
ResponseBlocks(st) == UNION {EntryBlocks(st, name) : name \in DOMAIN st.entries}

\* the entries of the pools and the entries of the pods of the response
PoolEntryNames(st) ==
    {name \in DOMAIN st.entries : FakedContainerName \in DOMAIN st.entries[name]}

PodEntryNames(st) == DOMAIN st.entries \ PoolEntryNames(st)

IdsAndSizes(blocks) ==
    [i \in DOMAIN blocks |-> <<blocks[i].BlockId, blocks[i].Result>>]

\* the blocks a container of the recorded assembly has on a NUMA id
ContainerBlocks(ci, numa) ==
    ResultBlocks(asmHist.out, ci.PodUID, ci.ContainerName, numa)

\* the NUMA ids a container of the recorded assembly has a result for
ContainerNumas(ci) ==
    IF /\ ci.PodUID \in DOMAIN asmHist.out.entries
       /\ ci.ContainerName \in DOMAIN asmHist.out.entries[ci.PodUID]
    THEN DOMAIN asmHist.out.entries[ci.PodUID][ci.ContainerName].Numas
    ELSE {}

\* the pairs first, second of NUMA-bound dedicated containers of the recorded
\* assembly, the first assembled before the second
DedicatedPairs ==
    {p \in (DOMAIN asmHist.containers) \X (DOMAIN asmHist.containers) :
        /\ p[1] < p[2]
        /\ IsDedicatedNumaBinding(asmHist.containers[p[1]])
        /\ IsDedicatedNumaBinding(asmHist.containers[p[2]])}

\* those of one pod
SiblingPairs ==
    {p \in DedicatedPairs :
        asmHist.containers[p[1]].PodUID = asmHist.containers[p[2]].PodUID}

\* C16 (as stated): the container of a pod assembled second has, on every NUMA
\* id the first one has a result for, blocks with the identifiers and sizes of
\* the first one's blocks
C16_Original ==
    \A p \in SiblingPairs :
        \A n \in ContainerNumas(asmHist.containers[p[1]]) :
            IdsAndSizes(ContainerBlocks(asmHist.containers[p[2]], n))
                = IdsAndSizes(ContainerBlocks(asmHist.containers[p[1]], n))

\* C16 (amended): the container of a pod assembled second has a result exactly
\* on the NUMA ids of its own assignment; on those the first one has a result
\* for, its blocks have the identifiers and sizes of the first one's blocks
\* and the pod has no other block identifier there; on the others it has no
\* block
C16_SidecarReuse ==
    \A p \in SiblingPairs :
        LET first == asmHist.containers[p[1]]
            second == asmHist.containers[p[2]]
        IN /\ ContainerNumas(second) = DOMAIN second.TopologyAwareAssignments
           /\ \A n \in ContainerNumas(second) :
                 IF n \in ContainerNumas(first)
                 THEN /\ IdsAndSizes(ContainerBlocks(second, n))
                            = IdsAndSizes(ContainerBlocks(first, n))
                      /\ {b.BlockId : b \in Range(ContainerBlocks(second, n))}
                            = {b.BlockId : b \in Range(ContainerBlocks(first, n))}
                 ELSE ContainerBlocks(second, n) = <<>>

\* a sidecar with a CPU set of one CPU on a NUMA id where the container
\* assembled first has a block of another size
C16_Witness ==
    \E p \in SiblingPairs :
        \E n \in ContainerNumas(asmHist.containers[p[2]]) :
            /\ ContainerBlocks(asmHist.containers[p[1]], n) # <<>>
            /\ ContainerBlocks(asmHist.containers[p[1]], n)[1].Result
                  # Cardinality(asmHist.containers[p[2]].TopologyAwareAssignments[n])

\* the container at i is the first one of its pod the assembly visits
FirstOfPod(i) ==
    \A j \in 1..(i - 1) : asmHist.containers[j].PodUID # asmHist.containers[i].PodUID

\* pairs of NUMA-bound dedicated containers of different pods, each the
\* first one of its pod
RivalPairs ==
    {p \in DedicatedPairs :
        /\ asmHist.containers[p[1]].PodUID # asmHist.containers[p[2]].PodUID
        /\ FirstOfPod(p[1])
        /\ FirstOfPod(p[2])}

\* the blocks the reclaim pool has on a NUMA id after assemblePoolEntries
ReclaimedBlocks(numa) ==
    ResultBlocks(asmHist.pools, PoolNameReclaim, FakedContainerName, numa)

\* the NUMA ids both containers of a pair are assigned on which the reclaim
\* pool has one block without overlap targets after assemblePoolEntries
ContestedNumas(p) ==
    {n \in DOMAIN asmHist.containers[p[1]].TopologyAwareAssignments
           \cap DOMAIN asmHist.containers[p[2]].TopologyAwareAssignments :
        /\ Len(ReclaimedBlocks(n)) = 1
        /\ ReclaimedBlocks(n)[1].OverlapTargets = {}}

\* the reclaimed block of a NUMA id in the response
ReclaimedBlock(numa) ==
    ResultBlocks(asmHist.out, PoolNameReclaim, FakedContainerName, numa)[1]

\* the container has exactly one block on the NUMA id, joined with the
\* reclaimed block there
Claims(ci, numa) ==
    /\ Len(ContainerBlocks(ci, numa)) = 1
    /\ ContainerBlocks(ci, numa)[1].OverlapTargets = {ReclaimedBlock(numa).BlockId}
    /\ ContainerBlocks(ci, numa)[1].BlockId \in ReclaimedBlock(numa).OverlapTargets

\* the container has exactly one block on the NUMA id, without overlap target
Unlinked(ci, numa) ==
    /\ Len(ContainerBlocks(ci, numa)) = 1
    /\ ContainerBlocks(ci, numa)[1].OverlapTargets = {}

\* C17 (as stated): of two NUMA-bound dedicated containers of different pods
\* assigned a NUMA id where the reclaim pool has one block without overlap
\* targets, exactly one is joined with the reclaimed block, which ends with
\* exactly one overlap target, and the block of the other one on that NUMA id
\* has no overlap target
C17_Original ==
    \A p \in RivalPairs :
        \A n \in ContestedNumas(p) :
            LET first == asmHist.containers[p[1]]
                second == asmHist.containers[p[2]]
            IN /\ Cardinality(ReclaimedBlock(n).OverlapTargets) = 1
               /\ \/ Claims(first, n) /\ Unlinked(second, n)
                  \/ Claims(second, n) /\ Unlinked(first, n)

\* C17 (what the assembly does): the container assembled first is joined with
\* the reclaimed block, which ends with that container's block as its only
\* overlap target; the container assembled second has a result for the NUMA
\* id that holds no block
C17_SecondGetsNoBlock ==
    \A p \in RivalPairs :
        \A n \in ContestedNumas(p) :
            LET first == asmHist.containers[p[1]]
                second == asmHist.containers[p[2]]
            IN /\ Claims(first, n)
               /\ ReclaimedBlock(n).OverlapTargets = {ContainerBlocks(first, n)[1].BlockId}
               /\ ContainerBlocks(first, n)[1].Result
                     = Cardinality(first.TopologyAwareAssignments[n])
               /\ n \in ContainerNumas(second)
               /\ ContainerBlocks(second, n) = <<>>

\* two containers of different pods contend for the reclaimed block of a
\* NUMA id
C17_Witness ==
    \E p \in RivalPairs : ContestedNumas(p) # {}

\* the NUMA-bound dedicated containers that are the first of their pod
FirstDedicated ==
    {i \in DOMAIN asmHist.containers :
        IsDedicatedNumaBinding(asmHist.containers[i]) /\ FirstOfPod(i)}

\* the container has, on the NUMA id, exactly one block, of the size of its
\* CPU set there, without overlap target, whose identifier no entry of
\* another pod or of a pool uses
StandaloneOn(ci, numa) ==
    /\ Len(ContainerBlocks(ci, numa)) = 1
    /\ ContainerBlocks(ci, numa)[1].Result
          = Cardinality(ci.TopologyAwareAssignments[numa])
    /\ ContainerBlocks(ci, numa)[1].OverlapTargets = {}
    /\ \A name \in DOMAIN asmHist.out.entries \ {ci.PodUID} :
          \A b \in EntryBlocks(asmHist.out, name) :
              asmHist.out.heap[b].BlockId # ContainerBlocks(ci, numa)[1].BlockId

\* C18 (as stated): a NUMA-bound dedicated container that is the first of
\* its pod has, on every NUMA id of its assignment where the reclaim pool has
\* no block after assemblePoolEntries, exactly one fresh block of the size of
\* its CPU set, without overlap target
C18_Original ==
    \A i \in FirstDedicated :
        \A n \in DOMAIN asmHist.containers[i].TopologyAwareAssignments :
            (ReclaimedBlocks(n) = <<>>) => StandaloneOn(asmHist.containers[i], n)

\* C18 (what the assembly does): the container has that standalone block on
\* the NUMA ids where the reclaim pool has no result; where the reclaim pool
\* has a result that holds no block, the container has no block either
C18_StandaloneWithoutResult ==
    \A i \in FirstDedicated :
        \A n \in DOMAIN asmHist.containers[i].TopologyAwareAssignments :
            (ReclaimedBlocks(n) = <<>>) =>
                IF HasNumaCalculationResult(asmHist.pools.entries, PoolNameReclaim,
                                            FakedContainerName, n)
                THEN ContainerBlocks(asmHist.containers[i], n) = <<>>
                ELSE StandaloneOn(asmHist.containers[i], n)

\* the first container of a pod is assigned a NUMA id where the reclaim pool
\* has no result, the reclaim pool having one on the other NUMA id
C18_Witness ==
    \E i \in FirstDedicated :
        \E n \in DOMAIN asmHist.containers[i].TopologyAwareAssignments :
            /\ PoolNameReclaim \in DOMAIN asmHist.pools.entries
            /\ ~ HasNumaCalculationResult(asmHist.pools.entries, PoolNameReclaim,
                                          FakedContainerName, n)
            /\ StandaloneOn(asmHist.containers[i], n)

\* the container of the recorded assembly has an entry in the response
HasEntry(ci) ==
    /\ ci.PodUID \in DOMAIN asmHist.out.entries
    /\ ci.ContainerName \in DOMAIN asmHist.out.entries[ci.PodUID]

\* the owner pool name the response publishes for the container
EntryOwnerPoolName(ci) ==
    asmHist.out.entries[ci.PodUID][ci.ContainerName].OwnerPoolName

\* the containers of the recorded assembly
Assembled == Range(asmHist.containers)

\* C19: for every container entry of the response, the published owner pool
\* name is the single region name when the container is isolated and has
\* exactly one region name that differs from its owner pool, the origin owner
\* pool when it is not isolated and its owner pool differs from its origin
\* owner pool, and its owner pool in every other case
C19_PublishedOwnerPool ==
    \A ci \in Assembled :
        HasEntry(ci) =>
            LET lockedIn == /\ ci.Isolated
                            /\ \E r \in ci.RegionNames :
                                  ci.RegionNames = {r} /\ r # ci.OwnerPoolName
                lockedOut == ~ ci.Isolated /\ ci.OwnerPoolName # ci.OriginOwnerPoolName
            IN /\ lockedIn => ci.RegionNames = {EntryOwnerPoolName(ci)}
               /\ lockedOut => EntryOwnerPoolName(ci) = ci.OriginOwnerPoolName
               /\ (~ lockedIn /\ ~ lockedOut) => EntryOwnerPoolName(ci) = ci.OwnerPoolName

\* the response has the entry of an isolated container published under its
\* region name, and the entry of a container published under its origin
\* owner pool or under its owner pool
C19_Witness ==
    /\ \E ci \in Assembled :
          /\ HasEntry(ci)
          /\ ci.Isolated
          /\ EntryOwnerPoolName(ci) # ci.OwnerPoolName
          /\ EntryOwnerPoolName(ci) \in ci.RegionNames
    /\ \E ci \in Assembled :
          /\ HasEntry(ci)
          /\ ~ ci.Isolated

\* the shared_cores and reclaimed_cores containers of the recorded assembly
SharedOrReclaimed ==
    {ci \in Assembled :
        ci.QoSLevel \in {QoSLevelSharedCores, QoSLevelReclaimedCores}}

\* C20: a shared_cores or reclaimed_cores container whose published pool
\* name is empty or names no pool assembled in the pass has no entry in the
\* response, the other containers being assembled all the same; every entry
\* of such a container in the response publishes the name of a pool entry of
\* the response
C20_UnknownPoolOmitted ==
    /\ \A ci \in SharedOrReclaimed :
          (\/ PublishedOwnerPool(ci) = ""
           \/ PublishedOwnerPool(ci) \notin PoolEntryNames(asmHist.pools))
              => ~ HasEntry(ci)
    /\ \A ci \in SharedOrReclaimed :
          HasEntry(ci) => EntryOwnerPoolName(ci) \in PoolEntryNames(asmHist.out)
    /\ \A ci \in Assembled \ SharedOrReclaimed : HasEntry(ci)

\* a shared_cores container with a pool name that is not empty and names no
\* pool is left out, and the container visited after it has its entry
C20_Witness ==
    \E i \in DOMAIN asmHist.containers :
        /\ asmHist.containers[i] \in SharedOrReclaimed
        /\ PublishedOwnerPool(asmHist.containers[i]) # ""
        /\ ~ HasEntry(asmHist.containers[i])
        /\ i + 1 \in DOMAIN asmHist.containers
        /\ HasEntry(asmHist.containers[i + 1])

\* the extra entries of the response that come from the advisor: all but
\* the headroom entry at the end
AdvisoryExtra ==
    SubSeq(asmHist.extraEntries, 1, Len(asmHist.extraEntries) - Len(asmHist.headroom))

\* the advisor's extra entries with the cgroup path that have the key
Carrying(path, k) ==
    {i \in DOMAIN asmHist.advisorResp.ExtraEntries :
        /\ asmHist.advisorResp.ExtraEntries[i].CgroupPath = path
        /\ k \in DOMAIN asmHist.advisorResp.ExtraEntries[i].Values}

\* the value the last of them has for the key
LastValue(path, k) ==
    asmHist.advisorResp.ExtraEntries[
        CHOOSE i \in Carrying(path, k) : \A j \in Carrying(path, k) : j <= i].Values[k]

\* C21 (as stated): the extra entries of an assembled response, the headroom
\* entry at the end included, never contain two entries with the same
\* cgroup path
C21_Original ==
    (asmHist.n = 1) =>
        \A i, j \in DOMAIN asmHist.extraEntries :
            (i # j) => asmHist.extraEntries[i].CgroupPath
                          # asmHist.extraEntries[j].CgroupPath

\* C21 (what the assembly does): the extra entries that come from the
\* advisor have pairwise different cgroup paths, one entry per path of the
\* advisor's extra entries, holding for every key the value of the last
\* advisor entry of that path with the key; the headroom entry, when there
\* is one, is appended after them as an entry of its own with the empty
\* cgroup path, not merged
C21_AdvisoryMergedHeadroomAppended ==
    (asmHist.n = 1) =>
        /\ \A i, j \in DOMAIN AdvisoryExtra :
              (i # j) => AdvisoryExtra[i].CgroupPath # AdvisoryExtra[j].CgroupPath
        /\ {e.CgroupPath : e \in Range(AdvisoryExtra)}
              = {e.CgroupPath : e \in Range(asmHist.advisorResp.ExtraEntries)}
        /\ \A e \in Range(AdvisoryExtra) :
              /\ DOMAIN e.Values = {k \in {"cpu_limit", "cpu_share"} :
                                       Carrying(e.CgroupPath, k) # {}}
              /\ \A k \in DOMAIN e.Values : e.Values[k] = LastValue(e.CgroupPath, k)
        /\ asmHist.extraEntries = AdvisoryExtra \o asmHist.headroom
        /\ \A h \in Range(asmHist.headroom) :
              /\ h.CgroupPath = ""
              /\ DOMAIN h.Values = {ControlKnobKeyCPUNUMAHeadroom}

\* two extra entries of the advisor with the empty cgroup path and different
\* values of one key are merged, and the headroom entry follows
C21_Witness ==
    /\ asmHist.n = 1
    /\ Len(asmHist.advisorResp.ExtraEntries) = 2
    /\ asmHist.advisorResp.ExtraEntries[1].CgroupPath = ""
    /\ asmHist.advisorResp.ExtraEntries[2].CgroupPath = ""
    /\ asmHist.advisorResp.ExtraEntries[1].Values = ("cpu_limit" :> "a")
    /\ asmHist.advisorResp.ExtraEntries[2].Values = ("cpu_limit" :> "b")
    /\ Len(asmHist.headroom) = 1
    /\ Len(asmHist.extraEntries) = 2

\* the origin owner pools of the containers the recorded call leaves cached
SurvivorOrigins ==
    {syncHist.after.containers[k].OriginOwnerPoolName :
        k \in DOMAIN syncHist.after.containers}

\* C22: after a reconciliation, a pool that was cached (before the call, or
\* by its pool loop) is still cached if and only if the checkpoint has a
\* pool-level entry under its name or it is the origin owner pool of a
\* container that survived container GC in the call; no other pool is cached
C22_PoolGCExact ==
    (syncHist.n = 1) =>
        /\ \A p \in PoolsBeforeGC :
              (p \in DOMAIN syncHist.after.pools)
                  <=> (p \in RecordedPoolEntries \/ p \in SurvivorOrigins)
        /\ DOMAIN syncHist.after.pools \subseteq PoolsBeforeGC

\* of the pools cached before the call and without pool-level entry in the
\* checkpoint, one is deleted and another one is kept as the origin owner
\* pool of a surviving container
C22_Witness ==
    /\ syncHist.n = 1
    /\ \E p, q \in DOMAIN syncHist.before.pools \ RecordedPoolEntries :
          /\ p \notin DOMAIN syncHist.after.pools
          /\ q \in DOMAIN syncHist.after.pools
          /\ q \in SurvivorOrigins

\* C24 (as stated): every pool record the recorded call leaves in the cache
\* under key k has PoolName equal to k, whatever owner-pool name the
\* pool-level entry of the checkpoint reports
C24_Original ==
    (syncHist.n = 1) =>
        \A k \in DOMAIN syncHist.after.pools : syncHist.after.pools[k].PoolName = k

\* C24 (what the reconciliation does): a pool the call first creates is
\* stored under the key of its checkpoint entry and named after the
\* owner-pool name that entry reports; a pool cached before keeps its name
C24_NamedByReportedOwner ==
    (syncHist.n = 1) =>
        \A k \in DOMAIN syncHist.after.pools :
            IF k \in DOMAIN syncHist.before.pools
            THEN syncHist.after.pools[k].PoolName = syncHist.before.pools[k].PoolName
            ELSE /\ k \in RecordedPoolEntries
                 /\ syncHist.after.pools[k].PoolName
                       = syncHist.r.Entries[k][FakedContainerName].OwnerPoolName

\* the call first creates a pool whose checkpoint entry reports an
\* owner-pool name other than its key, and the pool stays cached
C24_Witness ==
    /\ syncHist.n = 1
    /\ \E k \in DOMAIN syncHist.after.pools \ DOMAIN syncHist.before.pools :
          syncHist.r.Entries[k][FakedContainerName].OwnerPoolName # k

(***************************************************************************)
(* Ticks and the timer of the loop (specification Spec).                   *)
(***************************************************************************)
C23_OneTick ==
    /\ Cardinality({c \in Calls : InTick(c)}) <= 1
    /\ \A c \in Calls : InTick(c) => timer[c].state = "expired"

C23_Step ==
    /\ \A c \in Calls :
          (timer[c].state # "armed" /\ timer'[c].state = "armed") =>
              \/ pc[c] = "createClient" /\ pc'[c] = "select"
              \/ pc[c] = "report" /\ pc'[c] = "select"
    /\ \A c \in Calls :
          (pc[c] = "sync" /\ pc'[c] = "gate") =>
              \A c2 \in Calls \ {c} : ~ InTick(c2) /\ pc'[c2] = pc[c2]
    /\ \A c \in Calls :
          (pc[c] \in {"gate", "advise", "assemble"} /\ pc'[c] \in {"gate", "advise", "assemble", "push"}) =>
              \A c2 \in Calls : ~ (pc[c2] = "sync" /\ pc'[c2] = "gate")

\* C23: the timer of a call is armed only when the loop starts and when a
\* tick has returned, never during a tick, and at most one call is in a tick
\* at any time; a reconciliation runs while no other call is in a tick, and
\* between the reconciliation of a tick and its assembly step no
\* reconciliation runs
C23_TicksNeverOverlap == []C23_OneTick /\ [][C23_Step]_vars

\* a call assembles in a tick that follows an earlier, reported tick, while
\* the other call was rejected
C23_Witness ==
    \E c1, c2 \in Calls :
        /\ pc[c1] = "assemble"
        /\ health.state \in {"ok", "failed"}
        /\ pc[c2] = "returned" /\ ret[c2] = ErrRunning

C25_TimerReady ==
    \A c \in Calls :
        /\ pc[c] \in {"select", "stopTimer"} => timer[c].state \in {"armed", "fired"}
        /\ pc[c] \in {"unregister", "release"} =>
              timer[c].state = "stopped" \/ ret[c] = "create cpu plugin client failed"

C25_ExitStep ==
    \A c \in Calls :
        /\ (pc[c] = "stopTimer" /\ pc'[c] # "stopTimer") =>
              pc'[c] = "unregister" /\ timer'[c].state = "stopped"
        /\ (pc[c] = "unregister" /\ pc'[c] # "unregister") =>
              pc'[c] = "release" /\ ~ health'.registered
        /\ (pc[c] = "release" /\ pc'[c] # "release") =>
              pc'[c] = "returned" /\ hasListAndWatchLoop' = FALSE

\* C25: whenever a call is at the select or at the deferred timer cleanup,
\* its timer is armed and unfired or fired with its value not received, so
\* the cleanup can always proceed (Stop succeeds or the drain receives); the
\* cleanup is followed by the unregistration of the health check and by the
\* reset of the flag
C25_TimerCleanupNeverBlocks == []C25_TimerReady /\ [][C25_ExitStep]_vars

\* a call leaves the loop after a tick, with a fired timer whose value was
\* not received
C25_Witness ==
    \E c \in Calls :
        /\ pc[c] = "stopTimer"
        /\ timer[c].state = "fired"
        /\ health.state \in {"ok", "failed"}
====
